---- MODULE Spec2Model ----
(***************************************************************************)
(* A model of the DSSAT file readers of src/data/dssat_io.py.              *)
(*                                                                         *)
(* Text is modelled character by character: a line is a sequence of        *)
(* one-character strings (without its line terminator, which every use in  *)
(* the source strips or splits away), a token is a non-empty sequence of   *)
(* characters, and the missing marker None is the empty sequence.          *)
(***************************************************************************)
EXTENDS Integers, Sequences, FiniteSets, TLC

VARIABLES
    op,      \* the operation the caller invoked ("idle" when none is running)
    fn,      \* the function whose body is executing
    pc,      \* position inside that body
    arg,     \* the call's input (path attributes, folder name, ...)
    log,     \* the open() attempts made so far: <<[enc, outcome], ...>>
    lines,   \* the value of the local variable `lines`
    ret,     \* what the operation handed back to its caller
    x_files, \* prepare_experiment: the matched files still to visit
    result,  \* prepare_experiment: the (title, filename) pairs so far
    cwd,     \* the process's working directory (os.getcwd())
    batch,   \* BatchFile.v48 in the crop folder: whether it is there, its lines
    run,     \* run_treatment: its position, input, saved directory and outcome
    plot     \* plot_data: its loop counters and the bars drawn so far

vars == <<op, fn, pc, arg, log, lines, ret, x_files, result, cwd, batch, run, plot>>

----------------------------------------------------------------------------
(* Bounds of the model.                                                    *)

MaxLines == 4

MaxCols == 3

MaxDoy == 367

----------------------------------------------------------------------------
(* Python string primitives.                                               *)

IsSpace(c) == c \in {" ", "\t"}

Digits == {"0", "1", "2", "3", "4", "5", "6", "7", "8", "9"}

LowerCase == <<"a","b","c","d","e","f","g","h","i","j","k","l","m",
               "n","o","p","q","r","s","t","u","v","w","x","y","z">>

UpperCase == <<"A","B","C","D","E","F","G","H","I","J","K","L","M",
               "N","O","P","Q","R","S","T","U","V","W","X","Y","Z">>

UpperCh(c) ==
    IF \E i \in 1..26 : LowerCase[i] = c
    THEN UpperCase[CHOOSE i \in 1..26 : LowerCase[i] = c]
    ELSE c

\* str.upper()
Upper(s) == [i \in 1..Len(s) |-> UpperCh(s[i])]

Min(a, b) == IF a < b THEN a ELSE b

Max(a, b) == IF a > b THEN a ELSE b

\* s[a:b] with Python's index rules: a negative index counts from the end,
\* and both ends are clamped to 0..len(s).
PySlice(s, a, b) ==
    LET n  == Len(s)
        lo == Max(0, Min(n, IF a < 0 THEN a + n ELSE a))
        hi == Max(0, Min(n, IF b < 0 THEN b + n ELSE b))
    IN  IF lo >= hi THEN <<>> ELSE SubSeq(s, lo + 1, hi)

\* s[a:]
PyFrom(s, a) == PySlice(s, a, Len(s))

\* str.startswith(p)
StartsWith(s, p) == Len(p) <= Len(s) /\ SubSeq(s, 1, Len(p)) = p

\* str.endswith(p)
EndsWith(s, p) == Len(p) <= Len(s) /\ SubSeq(s, Len(s) - Len(p) + 1, Len(s)) = p

\* the least 1-based position at which p occurs in s, 0 when it does not
Find(s, p) ==
    LET at == {i \in 1..(Len(s) - Len(p) + 1) : SubSeq(s, i, i + Len(p) - 1) = p}
    IN  IF at = {} THEN 0 ELSE CHOOSE i \in at : \A j \in at : i <= j

\* p in s
Contains(s, p) == Find(s, p) # 0

\* str.lstrip(): the first non-blank position onwards
LStrip(s) ==
    LET keep == {i \in 1..Len(s) : ~IsSpace(s[i])}
    IN  IF keep = {} THEN <<>>
        ELSE SubSeq(s, CHOOSE i \in keep : \A j \in keep : i <= j, Len(s))

\* str.rstrip()
RStrip(s) ==
    LET keep == {i \in 1..Len(s) : ~IsSpace(s[i])}
    IN  IF keep = {} THEN <<>>
        ELSE SubSeq(s, 1, CHOOSE i \in keep : \A j \in keep : i >= j)

\* str.strip()
Strip(s) == RStrip(LStrip(s))

\* str.lstrip(ch): drops every leading occurrence of the character ch
LStripCh(s, ch) ==
    LET keep == {i \in 1..Len(s) : s[i] # ch}
    IN  IF keep = {} THEN <<>>
        ELSE SubSeq(s, CHOOSE i \in keep : \A j \in keep : i <= j, Len(s))

RECURSIVE SplitAcc(_, _, _, _)
SplitAcc(s, i, cur, acc) ==
    IF i > Len(s)
    THEN IF cur = <<>> THEN acc ELSE Append(acc, cur)
    ELSE IF IsSpace(s[i])
         THEN SplitAcc(s, i + 1, <<>>, IF cur = <<>> THEN acc ELSE Append(acc, cur))
         ELSE SplitAcc(s, i + 1, Append(cur, s[i]), acc)

\* str.split(): the maximal runs of non-blank characters, in order
Split(s) == SplitAcc(s, 1, <<>>, <<>>)

\* str.isdigit()
IsDigit(t) == t # <<>> /\ \A i \in 1..Len(t) : t[i] \in Digits

RECURSIVE Join(_, _)
\* sep.join(toks)
Join(toks, sep) ==
    IF toks = <<>> THEN <<>>
    ELSE IF Len(toks) = 1 THEN toks[1]
    ELSE toks[1] \o sep \o Join(Tail(toks), sep)

----------------------------------------------------------------------------
(* Words of the file formats.                                              *)

AT == <<"@">>

STAR == <<"*">>

SP == <<" ">>

YEAR == <<"Y","E","A","R">>

DOY == <<"D","O","Y">>

DATE == <<"D","A","T","E">>

TREATMENT == <<"T","R","E","A","T","M","E","N","T">>

TRT == <<"T","R","T">>

TRNO == <<"T","R","N","O">>

TR == <<"T","R">>

TN == <<"T","N">>

CR == <<"C","R">>

ONE == <<"1">>

\* the missing marker (Python None / NaN): no token is empty
None == <<>>

\* config.MISSING_VALUES, the string forms
MISSING_VALUES == { <<"-","9","9">>, <<"-","9","9",".","0">>, <<"-","9","9",".","9">> }

----------------------------------------------------------------------------
(* Tables: pandas DataFrames as a sequence of column names and a sequence  *)
(* of rows, each row a sequence of cells aligned with the column names.    *)

DataFrame(data, columns) == [cols |-> columns, rows |-> data]

HasCol(df, c) == \E i \in 1..Len(df.cols) : df.cols[i] = c

ColIdx(df, c) ==
    CHOOSE i \in 1..Len(df.cols) :
        df.cols[i] = c /\ \A j \in 1..(i - 1) : df.cols[j] # c

\* df[c] as the sequence of its cells
Column(df, c) == [r \in 1..Len(df.rows) |-> df.rows[r][ColIdx(df, c)]]

\* df[c] = vals, vals one cell per row: replaces the column or appends it
SetItem(df, c, vals) ==
    IF HasCol(df, c)
    THEN [df EXCEPT !.rows =
            [r \in 1..Len(df.rows) |-> [df.rows[r] EXCEPT ![ColIdx(df, c)] = vals[r]]]]
    ELSE [cols |-> Append(df.cols, c),
          rows |-> [r \in 1..Len(df.rows) |-> Append(df.rows[r], vals[r])]]

\* df[c] = v, the scalar v on every row
SetConst(df, c, v) == SetItem(df, c, [r \in 1..Len(df.rows) |-> v])

\* df.drop(columns=[c])
DropCol(df, c) ==
    LET keep == SelectSeq([i \in 1..Len(df.cols) |-> i], LAMBDA i : df.cols[i] # c)
    IN  [cols |-> [k \in 1..Len(keep) |-> df.cols[keep[k]]],
         rows |-> [r \in 1..Len(df.rows) |->
                     [k \in 1..Len(keep) |-> df.rows[r][keep[k]]]]]

RECURSIVE UnionCols(_, _)
\* the column names of the frames in order of first appearance
UnionCols(frames, acc) ==
    IF frames = <<>> THEN acc
    ELSE UnionCols(Tail(frames),
                   acc \o SelectSeq(Head(frames).cols,
                                    LAMBDA c : \A i \in 1..Len(acc) : acc[i] # c))

RECURSIVE ConcatRows(_, _)
ConcatRows(frames, cols) ==
    IF frames = <<>> THEN <<>>
    ELSE LET f == Head(frames)
         IN  [r \in 1..Len(f.rows) |->
                 [k \in 1..Len(cols) |->
                     IF HasCol(f, cols[k]) THEN f.rows[r][ColIdx(f, cols[k])] ELSE None]]
             \o ConcatRows(Tail(frames), cols)

\* pd.concat(frames, ignore_index=True): the union of the columns, the frames'
\* rows one frame after the other, None where a frame lacks a column
Concat(frames) ==
    LET cols == UnionCols(frames, <<>>)
    IN  [cols |-> cols, rows |-> ConcatRows(frames, cols)]

\* DropAllNa keeping only the columns with every cell present
DropAllNa_NotnaAll(df) ==
    LET keep == SelectSeq([i \in 1..Len(df.cols) |-> i],
                          LAMBDA i : \A r \in 1..Len(df.rows) : df.rows[r][i] # None)
    IN  [cols |-> [k \in 1..Len(keep) |-> df.cols[keep[k]]],
         rows |-> [r \in 1..Len(df.rows) |->
                     [k \in 1..Len(keep) |-> df.rows[r][keep[k]]]]]

\* df.loc[:, df.notna().any()]: the columns with at least one cell present
DropAllNa(df) ==
    LET keep == SelectSeq([i \in 1..Len(df.cols) |-> i],
                          LAMBDA i : \E r \in 1..Len(df.rows) : df.rows[r][i] # None)
    IN  [cols |-> [k \in 1..Len(keep) |-> df.cols[keep[k]]],
         rows |-> [r \in 1..Len(df.rows) |->
                     [k \in 1..Len(keep) |-> df.rows[r][keep[k]]]]]

\* data.data_processing.standardize_dtypes: per-column type conversion; the
\* columns and the rows stay, a missing-value sentinel outside the treatment
\* identifier columns becomes missing
standardize_dtypes(df) ==
    [cols |-> df.cols,
     rows |-> [r \in 1..Len(df.rows) |->
                 [k \in 1..Len(df.cols) |->
                     IF df.cols[k] \notin {TRT, TRNO, TR, TN}
                        /\ df.rows[r][k] \in MISSING_VALUES
                     THEN None ELSE df.rows[r][k]]]]

----------------------------------------------------------------------------
(* What an operation hands back: None, a DataFrame, a list, or an          *)
(* exception leaving the function.                                         *)

RetNone == [kind |-> "None", cols |-> <<>>, rows |-> <<>>]

RetRaise == [kind |-> "raise", cols |-> <<>>, rows |-> <<>>]

RetDF(df) == [kind |-> "DataFrame", cols |-> df.cols, rows |-> df.rows]

RetList(items) == [kind |-> "list", cols |-> <<>>, rows |-> items]

\* try: r  except Exception: return fallback
Except(r, fallback) == IF r.kind = "raise" THEN fallback ELSE r

----------------------------------------------------------------------------
(* Row reconciliation.                                                     *)

\* [None] * n
Nones(n) == [i \in 1..n |-> None]

\* ForageRow with the padding one cell short
ForageRow_ShortPad(values, headers) ==
    IF Len(values) # Len(headers)
    THEN IF Len(values) > Len(headers)
         THEN PySlice(values, 0, Len(headers))
         ELSE values \o Nones(Len(headers) - Len(values) - 1)
    ELSE values

\* read_forage_file: the token list of one data line against the header
ForageRow(values, headers) ==
    IF Len(values) # Len(headers)
    THEN IF Len(values) > Len(headers)
         THEN PySlice(values, 0, Len(headers))
         ELSE values \o Nones(Len(headers) - Len(values))
    ELSE values

\* process_treatment_block: the token list of one data line against the header
BlockRow(values, headers) ==
    IF Len(values) > Len(headers)
    THEN PySlice(values, 0, Len(headers))
    ELSE IF Len(values) < Len(headers)
         THEN values \o Nones(Len(headers) - Len(values))
         ELSE values

----------------------------------------------------------------------------
(* read_forage_file, from the header scan on.                              *)

\* the 0-based indices i of ls for which P(ls[i]) holds, ascending
Indices(ls, P(_)) == SelectSeq([i \in 1..Len(ls) |-> i - 1], LAMBDA i : P(ls[i + 1]))

ForageIsHeader(line) ==
    \/ StartsWith(Strip(line), AT)
    \/ (StartsWith(Strip(line), STAR) /\ Contains(line, YEAR))

ForageHeaderIndices(ls) == Indices(ls, ForageIsHeader)

ForageHeaders(ls, start_idx) ==
    Split(Strip(LStripCh(LStripCh(Strip(ls[start_idx + 1]), "@"), "*")))

\* whether a line between two headers is taken as a data line
ForageKeeps(line) ==
    /\ Strip(line) # <<>>
    /\ ~StartsWith(Strip(line), STAR)
    /\ ~StartsWith(Strip(line), AT)

\* data_lines of the block from header start_idx up to next_idx
ForageDataLines(ls, start_idx, next_idx) ==
    LET kept    == SelectSeq(PySlice(ls, start_idx + 1, next_idx), ForageKeeps)
        headers == ForageHeaders(ls, start_idx)
    IN  [k \in 1..Len(kept) |-> ForageRow(Split(Strip(kept[k])), headers)]

\* the lines of the window before the header that mention TREATMENT
ForageTreatmentLines(ls, start_idx) ==
    LET win  == PySlice(ls, start_idx - 5, start_idx)
        hits == SelectSeq(win, LAMBDA l : Contains(Upper(l), TREATMENT))
    IN  [k \in 1..Len(hits) |-> Strip(hits[k])]

\* next((p for p in parts if p.isdigit()), None)
FirstDigitToken(parts) ==
    LET d == SelectSeq(parts, IsDigit)
    IN  IF d = <<>> THEN None ELSE d[1]

\* trt_num of the block, None when no number is recovered
ForageTrtNum(ls, start_idx) ==
    LET tl == ForageTreatmentLines(ls, start_idx)
    IN  IF tl = <<>> THEN None ELSE FirstDigitToken(Split(tl[1]))

\* block_df of one block with data lines
ForageBlockDF(ls, start_idx, next_idx) ==
    LET df  == DataFrame(ForageDataLines(ls, start_idx, next_idx),
                         ForageHeaders(ls, start_idx))
        trt == ForageTrtNum(ls, start_idx)
    IN  IF trt # None THEN SetConst(df, TRT, trt) ELSE df

ForageNextIdx(ls, hdr, idx) == IF idx < Len(hdr) THEN hdr[idx + 1] ELSE Len(ls)

\* data_frames: one frame per block that has data lines, in block order
ForageFrames(ls) ==
    LET hdr  == ForageHeaderIndices(ls)
        with == SelectSeq([i \in 1..Len(hdr) |-> i],
                    LAMBDA i : ForageDataLines(ls, hdr[i], ForageNextIdx(ls, hdr, i)) # <<>>)
    IN  [k \in 1..Len(with) |->
            ForageBlockDF(ls, hdr[with[k]], ForageNextIdx(ls, hdr, with[k]))]

\* EnsureTRT with the two aliases tried in the other order
EnsureTRT_PreferTR(df) ==
    IF ~HasCol(df, TRT)
    THEN IF HasCol(df, TR) THEN SetItem(df, TRT, Column(df, TR))
         ELSE IF HasCol(df, TRNO) THEN SetItem(df, TRT, Column(df, TRNO))
         ELSE SetConst(df, TRT, ONE)
    ELSE df

\* "Ensure TRT column exists"
EnsureTRT(df) ==
    IF ~HasCol(df, TRT)
    THEN IF HasCol(df, TRNO) THEN SetItem(df, TRT, Column(df, TRNO))
         ELSE IF HasCol(df, TR) THEN SetItem(df, TRT, Column(df, TR))
         ELSE SetConst(df, TRT, ONE)
    ELSE df

----------------------------------------------------------------------------
(* The DATE column: YEAR.astype(str) + DOY.astype(str).str.zfill(3), read  *)
(* back by pd.to_datetime(..., format="%Y%j", errors="coerce").            *)

DigitSeq == <<"0", "1", "2", "3", "4", "5", "6", "7", "8", "9">>

DigitVal(c) == (CHOOSE i \in 1..10 : DigitSeq[i] = c) - 1

RECURSIVE IntToStr(_)
\* str(n) for n >= 0
IntToStr(n) ==
    IF n < 10 THEN <<DigitSeq[n + 1]>>
    ELSE IntToStr(n \div 10) \o <<DigitSeq[(n % 10) + 1]>>

RECURSIVE StrToInt(_)
\* int(t) for a digit string t
StrToInt(t) ==
    IF t = <<>> THEN 0
    ELSE 10 * StrToInt(SubSeq(t, 1, Len(t) - 1)) + DigitVal(t[Len(t)])

\* str.zfill(width)
ZFill(t, width) ==
    IF Len(t) >= width THEN t ELSE [i \in 1..(width - Len(t)) |-> "0"] \o t

\* NaT, the missing date
NaT == <<>>

IsLeap(y) == y % 4 = 0 /\ (y % 100 # 0 \/ y % 400 = 0)

DaysInMonth(y, m) ==
    IF m = 2 THEN (IF IsLeap(y) THEN 29 ELSE 28)
    ELSE IF m \in {4, 6, 9, 11} THEN 30 ELSE 31

DaysInYear(y) == IF IsLeap(y) THEN 366 ELSE 365

RECURSIVE MonthDay(_, _, _)
\* the date that is day j (1-based) counted from the first of month m of year y
MonthDay(y, m, j) ==
    IF j <= DaysInMonth(y, m) THEN <<y, m, j>>
    ELSE MonthDay(y, m + 1, j - DaysInMonth(y, m))

\* date.fromordinal(date(y, 1, 1).toordinal() + julian - 1), for julian in 1..366:
\* the day count runs on into the next year when the year is too short for it
FromJulian(y, julian) ==
    IF julian <= DaysInYear(y) THEN MonthDay(y, 1, julian)
    ELSE MonthDay(y + 1, 1, julian - DaysInYear(y))

\* the length of the prefix of t that the %j pattern
\*   36[0-6]|3[0-5]\d|[1-2]\d\d|0[1-9]\d|00[1-9]|[1-9]\d|0[1-9]|[1-9]
\* takes (its first alternative that matches), 0 when none matches
JulianMatch(t) ==
    LET has(i)   == Len(t) >= i /\ t[i] \in Digits
        v(i)     == DigitVal(t[i])
    IN  IF has(1) /\ has(2) /\ has(3) /\ v(1) = 3 /\ v(2) = 6 /\ v(3) <= 6 THEN 3
        ELSE IF has(1) /\ has(2) /\ has(3) /\ v(1) = 3 /\ v(2) <= 5 THEN 3
        ELSE IF has(1) /\ has(2) /\ has(3) /\ v(1) \in {1, 2} THEN 3
        ELSE IF has(1) /\ has(2) /\ has(3) /\ v(1) = 0 /\ v(2) >= 1 THEN 3
        ELSE IF has(1) /\ has(2) /\ has(3) /\ v(1) = 0 /\ v(2) = 0 /\ v(3) >= 1 THEN 3
        ELSE IF has(1) /\ has(2) /\ v(1) >= 1 THEN 2
        ELSE IF has(1) /\ has(2) /\ v(1) = 0 /\ v(2) >= 1 THEN 2
        ELSE IF has(1) /\ v(1) >= 1 THEN 1
        ELSE 0

\* pd.to_datetime(t, format="%Y%j", errors="coerce"): four digits of year, the
\* day of the year, nothing left over; NaT when the text does not match
ToDatetimeYj(t) ==
    LET ytxt == PySlice(t, 0, 4)
        rest == PyFrom(t, 4)
        jlen == JulianMatch(rest)
    IN  IF Len(ytxt) = 4 /\ IsDigit(ytxt) /\ jlen > 0 /\ jlen = Len(rest)
        THEN FromJulian(StrToInt(ytxt), StrToInt(rest))
        ELSE NaT

\* the DATE cell of a row whose YEAR and DOY cells are the integers y and d
DeriveDate(y, d) == ToDatetimeYj(IntToStr(y) \o ZFill(IntToStr(d), 3))

\* whether every cell of the column is an integer literal (an int64 column)
IsIntColumn(df, c) == \A r \in 1..Len(df.rows) : IsDigit(Column(df, c)[r])

\* Series.astype(str) of one cell: an integer column prints its integers, any
\* other numeric column prints floats ("2023.0", "nan"), text stays as it is
AsStr(df, c, r) ==
    LET cell == Column(df, c)[r]
    IN  IF IsIntColumn(df, c) THEN IntToStr(StrToInt(cell))
        ELSE IF cell = None THEN <<"n", "a", "n">>
        ELSE IF IsDigit(cell) THEN IntToStr(StrToInt(cell)) \o <<".", "0">>
        ELSE cell

\* "Create DATE column if YEAR and DOY exist"
AddDate(df) ==
    IF HasCol(df, YEAR) /\ HasCol(df, DOY)
    THEN SetItem(df, DATE,
            [r \in 1..Len(df.rows) |->
                ToDatetimeYj(AsStr(df, YEAR, r) \o ZFill(AsStr(df, DOY, r), 3))])
    ELSE df

----------------------------------------------------------------------------
(* read_forage_file and read_file, from the point where `lines` is read.   *)

\* read_forage_file, lines 109-222, given a non-empty `lines`
ForageParse(ls) ==
    IF ForageHeaderIndices(ls) = <<>> THEN RetNone
    ELSE IF ForageFrames(ls) = <<>> THEN RetNone
    ELSE RetDF(AddDate(EnsureTRT(standardize_dtypes(DropAllNa(Concat(ForageFrames(ls)))))))

\* process_treatment_block: the first line that starts with "@", unstripped
BlockHeaderIndex(ls) ==
    LET h == Indices(ls, LAMBDA l : StartsWith(l, AT))
    IN  IF h = <<>> THEN -1 ELSE h[1]

BlockHeaders(ls) == Split(Strip(LStripCh(ls[BlockHeaderIndex(ls) + 1], "@")))

\* whether a line after the header is taken as a data line
BlockKeeps(line) == Strip(line) # <<>> /\ ~StartsWith(line, STAR)

BlockDataLines(ls) ==
    LET kept == SelectSeq(PyFrom(ls, BlockHeaderIndex(ls) + 1), BlockKeeps)
    IN  [k \in 1..Len(kept) |-> BlockRow(Split(Strip(kept[k])), BlockHeaders(ls))]

IsTreatmentLine(line) == StartsWith(Upper(Strip(line)), TREATMENT)

\* "Extract treatment number if present": treatment_line.split()[1], and
\* nothing on IndexError
BlockAddTrt(ls, df) ==
    LET t == SelectSeq(ls, IsTreatmentLine)
    IN  IF t # <<>> /\ Len(Split(t[1])) >= 2
        THEN SetConst(df, TRT, Split(t[1])[2])
        ELSE df

\* process_treatment_block: a frame, or RetNone
process_treatment_block(ls) ==
    IF BlockHeaderIndex(ls) = -1 THEN RetNone
    ELSE IF BlockDataLines(ls) = <<>> THEN RetNone
    ELSE LET df == BlockAddTrt(ls, DataFrame(BlockDataLines(ls), BlockHeaders(ls)))
         IN  RetDF(IF HasCol(df, CR) THEN DropCol(df, CR) ELSE df)

TreatmentIndices(ls) == Indices(ls, IsTreatmentLine)

\* the slices of `lines` handed to process_treatment_block, in order
ReadFileSections(ls) ==
    LET ti == TreatmentIndices(ls)
    IN  IF ti # <<>>
        THEN [k \in 1..Len(ti) |->
                PySlice(ls, ti[k], IF k < Len(ti) THEN ti[k + 1] ELSE Len(ls))]
        ELSE <<ls>>

\* data_frames of read_file: the frames of the sections that gave one
ReadFileFrames(ls) ==
    LET secs == ReadFileSections(ls)
        got  == SelectSeq([k \in 1..Len(secs) |-> process_treatment_block(secs[k])],
                          LAMBDA r : r.kind = "DataFrame")
    IN  [k \in 1..Len(got) |-> DataFrame(got[k].rows, got[k].cols)]

\* read_file, lines 377-411, given a non-empty `lines`
ReadFileParse(ls) ==
    IF ReadFileFrames(ls) # <<>>
    THEN RetDF(AddDate(standardize_dtypes(DropAllNa(Concat(ReadFileFrames(ls))))))
    ELSE RetNone

----------------------------------------------------------------------------
(* Inputs: the lines output files are made of.                             *)

L_hAB == <<"@", "A", " ", "B">>

L_hAC == <<"@", "A", " ", "C">>

L_r12 == <<"1", " ", "2">>

L_r3 == <<" ", "3">>

L_com == <<"*", "c">>

L_icom == <<" ", "*", "c">>

L_blank == <<" ">>

L_hTRNO == <<"@", "T", "R", "N", "O", " ", "T", "R">>

L_hTR == <<"@", "T", "R", " ", "A">>

L_trt1 == <<"T", "R", "E", "A", "T", "M", "E", "N", "T", " ", "7">>

L_trt == <<" ", "t", "r", "e", "a", "t", "m", "e", "n", "t">>

\* a line with a character outside ASCII, as latin-1 decodes it
L_latin == <<"*", "\\xe9">>

\* files about block structure: headers, rows, comments, blank lines
CorpusBlocks == {L_hAB, L_hAC, L_r12, L_r3, L_com, L_icom, L_blank}

\* files about treatment numbers: alias columns and TREATMENT lines
CorpusTrt == {L_hTRNO, L_hTR, L_r12, L_r3, L_trt1, L_trt}

\* files that are not valid utf-8
CorpusLatin == {L_hAB, L_r12, L_latin}

FilesOver(corpus) == UNION {[1..n -> corpus] : n \in 0..MaxLines}

\* the contents a utf-8 read can return
Utf8Files == FilesOver(CorpusBlocks) \cup FilesOver(CorpusTrt)

\* the contents of the files whose bytes are not valid utf-8, read as latin-1
Latin1Files == {f \in FilesOver(CorpusLatin) : \E i \in 1..Len(f) : f[i] = L_latin}

FORAGE_OUT == <<"F", "O", "R", "A", "G", "E", ".", "O", "U", "T">>

PLANTGRO_OUT == <<"P", "l", "a", "n", "t", "G", "r", "o", ".", "O", "U", "T">>

\* what a call is told about its path: whether the file exists, whether open()
\* is refused (OSError), whether its bytes are valid utf-8, and its base name
OutPaths(names) ==
    [exists : BOOLEAN, denied : BOOLEAN, utf8 : BOOLEAN, name : names]

----------------------------------------------------------------------------
(* The operations as state machines.                                       *)

\* the directory the application was started in, and the crop's directory
APP_DIR == "app"

CROP_DIR == "crop"

\* no BatchFile.v48 in the crop folder
NoBatch == [exists |-> FALSE, lines |-> <<>>]

\* no run_treatment call under way
RunIdle == [pc |-> "idle", arg |-> <<>>, original_dir |-> "", out |-> "",
            ran |-> FALSE, code |-> 0]

\* plot_data before its loops: no counter set, no bar drawn
NoPlot == [trt_idx |-> 0, var_idx |-> 0, active_var_idx |-> 0, bars |-> <<>>]

Pending == [kind |-> "pending", cols |-> <<>>, rows |-> <<>>]

NoArg == [exists |-> FALSE, denied |-> FALSE, utf8 |-> FALSE, name |-> <<>>]

Init ==
    /\ op = "idle"
    /\ fn = "idle"
    /\ pc = "idle"
    /\ arg = NoArg
    /\ log = <<>>
    /\ lines = <<>>
    /\ ret = Pending
    /\ x_files = <<>>
    /\ result = <<>>
    /\ cwd = APP_DIR
    /\ batch = NoBatch
    /\ run = RunIdle
    /\ plot = NoPlot

\* encodings = ['utf-8', 'latin-1']
encodings == <<"utf-8", "latin-1">>

Call_read_file ==
    /\ pc = "idle"
    /\ \E a \in OutPaths({PLANTGRO_OUT}) : arg' = a
    /\ op' = "read_file" /\ fn' = "read_file" /\ pc' = "exists"
    /\ UNCHANGED <<log, lines, ret, x_files, result, cwd, batch, run, plot>>

Call_read_forage_file ==
    /\ pc = "idle"
    /\ \E a \in OutPaths({FORAGE_OUT}) : arg' = a
    /\ op' = "read_forage_file" /\ fn' = "read_forage_file" /\ pc' = "exists"
    /\ UNCHANGED <<log, lines, ret, x_files, result, cwd, batch, run, plot>>

Call_modify_read_file ==
    /\ pc = "idle"
    /\ \E a \in OutPaths({FORAGE_OUT, PLANTGRO_OUT}) : arg' = a
    /\ op' = "modify_read_file" /\ fn' = "modify_read_file" /\ pc' = "exists"
    /\ UNCHANGED <<log, lines, ret, x_files, result, cwd, batch, run, plot>>

\* modify_read_file: the existence check, then the dispatch on the file name
ModifyDispatch ==
    /\ fn = "modify_read_file" /\ pc = "exists"
    /\ IF ~arg.exists
       THEN /\ ret' = RetNone /\ pc' = "done" /\ fn' = fn
       ELSE /\ fn' = IF Upper(arg.name) = FORAGE_OUT
                     THEN "read_forage_file" ELSE "read_file"
            /\ pc' = "exists" /\ ret' = ret
    /\ UNCHANGED <<op, arg, log, lines, x_files, result, cwd, batch, run, plot>>

\* CheckExists without the existence test
CheckExists_Skipped ==
    /\ fn \in {"read_file", "read_forage_file"} /\ pc = "exists"
    /\ ret' = ret /\ pc' = "open"
    /\ UNCHANGED <<op, fn, arg, log, lines, x_files, result, cwd, batch, run, plot>>

\* read_file / read_forage_file: if not os.path.exists(file_path): return None
CheckExists ==
    /\ fn \in {"read_file", "read_forage_file"} /\ pc = "exists"
    /\ IF ~arg.exists
       THEN ret' = RetNone /\ pc' = "done"
       ELSE ret' = ret /\ pc' = "open"
    /\ UNCHANGED <<op, fn, arg, log, lines, x_files, result, cwd, batch, run, plot>>

\* one turn of `for encoding in encodings`: open and readlines
OpenAttempt ==
    /\ fn \in {"read_file", "read_forage_file"} /\ pc = "open"
    /\ Len(log) < Len(encodings)
    /\ LET enc == encodings[Len(log) + 1]
       IN  IF arg.denied \/ ~arg.exists
           THEN \* open() raises OSError: the function's outer handler returns None
                /\ log' = Append(log, [enc |-> enc, outcome |-> "OSError"])
                /\ ret' = Except(RetRaise, RetNone) /\ pc' = "done"
                /\ lines' = lines
           ELSE IF enc = "utf-8" /\ ~arg.utf8
           THEN \* UnicodeDecodeError: continue
                /\ log' = Append(log, [enc |-> enc, outcome |-> "UnicodeDecodeError"])
                /\ pc' = IF Len(log) + 1 < Len(encodings) THEN "open" ELSE "parse"
                /\ UNCHANGED <<lines, ret>>
           ELSE \* lines = file.readlines(); break
                /\ log' = Append(log, [enc |-> enc, outcome |-> "ok"])
                /\ \E content \in (IF arg.utf8 THEN Utf8Files ELSE Latin1Files) :
                       lines' = content
                /\ pc' = "parse" /\ ret' = ret
    /\ UNCHANGED <<op, fn, arg, x_files, result, cwd, batch, run, plot>>

\* the rest of the function body: `if not lines: return None`, then the parse
\* inside the function's try block
Parse ==
    /\ fn \in {"read_file", "read_forage_file"} /\ pc = "parse"
    /\ ret' = IF lines = <<>> THEN RetNone
              ELSE IF fn = "read_file" THEN Except(ReadFileParse(lines), RetNone)
              ELSE Except(ForageParse(lines), RetNone)
    /\ pc' = "done"
    /\ UNCHANGED <<op, fn, arg, log, lines, x_files, result, cwd, batch, run, plot>>

\* the caller takes the result; the next call starts afresh
Return ==
    /\ pc = "done"
    /\ op' = "idle" /\ fn' = "idle" /\ pc' = "idle" /\ arg' = NoArg
    /\ log' = <<>> /\ lines' = <<>> /\ ret' = Pending
    /\ x_files' = <<>> /\ result' = <<>>
    /\ plot' = NoPlot
    /\ UNCHANGED <<cwd, batch, run>>

NextOut ==
    \/ Call_read_file
    \/ Call_read_forage_file
    \/ Call_modify_read_file
    \/ ModifyDispatch
    \/ CheckExists
    \/ OpenAttempt
    \/ Parse
    \/ Return

SpecOut == Init /\ [][NextOut]_vars

----------------------------------------------------------------------------
(* ForagePlotWidget.prepare_data, lines 115-119: TRT is copied from TRNO   *)
(* when only TRNO is there, and then read.                                 *)

\* whether self.forage_data["TRT"] can be read (no KeyError)
PrepareDataReadsTRT(df) == HasCol(df, TRT) \/ HasCol(df, TRNO)

----------------------------------------------------------------------------
(* The claims about the output-file readers, checked under SpecOut.        *)

Readers == {"read_file", "read_forage_file"}

Returned == pc = "done" /\ fn \in Readers

\* the line kinds as the claims name them
ClaimIsHeader(line) == StartsWith(Strip(line), AT)

ClaimIsComment(line) == StartsWith(Strip(line), STAR)

ClaimIsData(line) ==
    Strip(line) # <<>> /\ ~ClaimIsComment(line) /\ ~ClaimIsHeader(line)

\* the positions of the data lines that follow a header line
ClaimDataPositions(ls) ==
    {i \in 1..Len(ls) : ClaimIsData(ls[i]) /\ \E j \in 1..(i - 1) : ClaimIsHeader(ls[j])}

NoTreatmentLine(ls) == \A i \in 1..Len(ls) : ~Contains(Upper(ls[i]), TREATMENT)

\* C2: a file with a header line and a data line after it is returned as a
\* table with one row per data line (a line after a header that, trimmed, is
\* not empty, not a comment and not a header); stated for the files that have
\* no TREATMENT line.
C2_RowCount ==
    (Returned /\ NoTreatmentLine(lines) /\ ClaimDataPositions(lines) # {})
        => /\ ret.kind = "DataFrame"
           /\ Len(ret.rows) = Cardinality(ClaimDataPositions(lines))

\* C3: every table an output-file reader returns has a TRT column, so that
\* prepare_data can read it.
C3_TrtAlways ==
    (pc = "done" /\ ret.kind = "DataFrame")
        => HasCol(ret, TRT) /\ PrepareDataReadsTRT(ret)

\* C4: in read_forage_file, when the concatenated blocks have no TRT column,
\* TRT is TRNO on every row if the returned table has TRNO, else TR if it has
\* TR, else the constant "1".
C4_TrtSynthesis ==
    (pc = "done" /\ fn = "read_forage_file" /\ ret.kind = "DataFrame"
        /\ ~HasCol(Concat(ForageFrames(lines)), TRT))
        => /\ HasCol(ret, TRT)
           /\ \A r \in 1..Len(ret.rows) :
                Column(ret, TRT)[r] =
                    IF HasCol(ret, TRNO) THEN Column(ret, TRNO)[r]
                    ELSE IF HasCol(ret, TR) THEN Column(ret, TR)[r]
                    ELSE ONE

\* a table with both alias columns, differing on some row, and no block with
\* a recovered treatment number
C4_Witness ==
    /\ pc = "done" /\ fn = "read_forage_file" /\ ret.kind = "DataFrame"
    /\ ~HasCol(Concat(ForageFrames(lines)), TRT)
    /\ HasCol(ret, TRNO) /\ HasCol(ret, TR)
    /\ \E r \in 1..Len(ret.rows) : Column(ret, TRNO)[r] # Column(ret, TR)[r]

\* the header lines of a file, ascending
ClaimHeaderPositions(ls) == SelectSeq([i \in 1..Len(ls) |-> i], LAMBDA i : ClaimIsHeader(ls[i]))

\* the column names a header line gives: its tokens after the marker
ClaimHeaderNames(line) == Split(PyFrom(Strip(line), 1))

\* the data lines between positions lo and hi (exclusive), ascending
ClaimDataBetween(ls, lo, hi) ==
    SelectSeq([i \in 1..Len(ls) |-> i], LAMBDA i : lo < i /\ i < hi /\ ClaimIsData(ls[i]))

Elems(q) == {q[i] : i \in 1..Len(q)}

\* the row the claim expects for the data line at position p of a block
\* with the header names `names`: each named column holds its token, every
\* other column of the table is missing
ClaimRowIs(df, r, ls, p, names) ==
    \A k \in 1..Len(df.cols) :
        \/ df.cols[k] \in {TRT, DATE}
        \/ df.rows[r][k] =
              IF \E j \in 1..Len(names) : names[j] = df.cols[k]
              THEN Split(ls[p])[CHOOSE j \in 1..Len(names) : names[j] = df.cols[k]]
              ELSE None

\* C5: a file with two header-marked blocks, the second header lacking a
\* column of the first, is returned as a table whose columns are the union
\* of both headers (TRT and DATE aside), block 1's rows before block 2's, in
\* file order, the lacking column missing on block 2's rows; stated for the
\* files with no TREATMENT line whose data lines have as many tokens as their
\* header has names.
C5_ConcatUnion ==
    LET hp == ClaimHeaderPositions(lines)
        n1 == ClaimHeaderNames(lines[hp[1]])
        n2 == ClaimHeaderNames(lines[hp[2]])
        b1 == ClaimDataBetween(lines, hp[1], hp[2])
        b2 == ClaimDataBetween(lines, hp[2], Len(lines) + 1)
    IN  (/\ Returned /\ NoTreatmentLine(lines)
         /\ Len(hp) = 2 /\ b1 # <<>> /\ b2 # <<>>
         /\ Elems(n1) \ Elems(n2) # {}
         /\ \A k \in 1..Len(b1) : Len(Split(lines[b1[k]])) = Len(n1)
         /\ \A k \in 1..Len(b2) : Len(Split(lines[b2[k]])) = Len(n2))
        => /\ ret.kind = "DataFrame"
           /\ Elems(ret.cols) \ {TRT, DATE} = Elems(n1) \cup Elems(n2)
           /\ Len(ret.rows) = Len(b1) + Len(b2)
           /\ \A k \in 1..Len(b1) : ClaimRowIs(ret, k, lines, b1[k], n1)
           /\ \A k \in 1..Len(b2) : ClaimRowIs(ret, Len(b1) + k, lines, b2[k], n2)

\* C9: a path that does not exist gives None with no open attempted; the
\* first attempt is utf-8, a second one is made only after a decode failure
\* and is latin-1, there is no third; `lines` only ever holds what a
\* successful attempt read; without lines the result is None, never an
\* exception.
C9_EncodingReads ==
    fn \in Readers =>
        /\ Len(log) <= 2
        /\ ~arg.exists => (log = <<>> /\ (pc = "done" => ret = RetNone))
        /\ Len(log) >= 1 => log[1].enc = "utf-8"
        /\ Len(log) = 2 =>
              (log[1].outcome = "UnicodeDecodeError" /\ log[2].enc = "latin-1")
        /\ lines # <<>> => log[Len(log)].outcome = "ok"
        /\ pc = "done" => ret.kind # "raise"
        /\ (pc = "done" /\ lines = <<>>) => ret = RetNone

\* the fallback encoding was used and its lines became a table
C9_Witness ==
    /\ Returned /\ Len(log) = 2
    /\ log[2].outcome = "ok" /\ lines # <<>> /\ ret.kind = "DataFrame"

----------------------------------------------------------------------------
(* Row reconciliation on its own: a header of n names and one data line of *)
(* k tokens, parsed by the row loop of either function.                    *)

ColNames == << <<"A">>, <<"B">>, <<"C">>, <<"D">>, <<"E">>, <<"F">> >>

RowTokens == { <<"1">>, <<"2", "0">> }

\* the header line "@A B ..." with n names
HeaderLine(n) == AT \o Join(SubSeq(ColNames, 1, n), SP)

\* the inputs: n in 1..MaxCols and a token list of length 1..2n
RowInputs ==
    UNION { [n : {n}, toks : UNION {[1..k -> RowTokens] : k \in 1..(2 * n)}]
            : n \in 1..MaxCols }

Call_rows ==
    /\ pc = "idle"
    /\ \E a \in RowInputs, f \in {"read_forage_file", "process_treatment_block"} :
          /\ arg' = a
          /\ fn' = f
          /\ lines' = <<HeaderLine(a.n), Join(a.toks, SP)>>
    /\ op' = "rows" /\ pc' = "rows"
    /\ UNCHANGED <<log, ret, x_files, result, cwd, batch, run, plot>>

\* the row loop of the function over the block the two lines make
ParseRows ==
    /\ op = "rows" /\ pc = "rows"
    /\ ret' = IF fn = "read_forage_file"
              THEN RetDF(DataFrame(ForageDataLines(lines, 0, Len(lines)),
                                   ForageHeaders(lines, 0)))
              ELSE RetDF(DataFrame(BlockDataLines(lines), BlockHeaders(lines)))
    /\ pc' = "done"
    /\ UNCHANGED <<op, fn, arg, log, lines, x_files, result, cwd, batch, run, plot>>

NextRow == Call_rows \/ ParseRows \/ Return

SpecRow == Init /\ [][NextRow]_vars

\* C1: the row stored for a data line of k tokens (1 <= k <= 2n) under a
\* header of n names has exactly n cells: the first n tokens when k > n, the
\* k tokens followed by n-k missing markers when k < n, the tokens when k = n.
C1_RowReconciled ==
    (op = "rows" /\ pc = "done")
        => /\ ret.cols = SubSeq(ColNames, 1, arg.n)
           /\ Len(ret.rows) = 1
           /\ Len(ret.rows[1]) = arg.n
           /\ \A i \in 1..arg.n :
                ret.rows[1][i] = IF i <= Len(arg.toks) THEN arg.toks[i] ELSE None

\* a line with twice as many tokens as the header has names, and a line with
\* fewer: here the shorter one, padded by read_forage_file
C1_Witness ==
    /\ op = "rows" /\ pc = "done" /\ fn = "read_forage_file"
    /\ arg.n = 3 /\ Len(arg.toks) = 1
    /\ ret.rows[1] = <<arg.toks[1], None, None>>

----------------------------------------------------------------------------
(* Date derivation on its own: one row with the integers YEAR and DOY.     *)

Years == {1900, 2000, 2023, 2024}

Call_date ==
    /\ pc = "idle"
    /\ \E y \in Years, d \in 0..MaxDoy, f \in Readers :
          /\ arg' = [y |-> y, d |-> d]
          /\ fn' = f
    /\ op' = "date" /\ pc' = "date"
    /\ UNCHANGED <<log, lines, ret, x_files, result, cwd, batch, run, plot>>

\* the DATE step on the table of the one row (lines 207-214 and 400-407)
DeriveDateStep ==
    /\ op = "date" /\ pc = "date"
    /\ ret' = RetDF(AddDate(DataFrame(<< <<IntToStr(arg.y), IntToStr(arg.d)>> >>,
                                      <<YEAR, DOY>>)))
    /\ pc' = "done"
    /\ UNCHANGED <<op, fn, arg, log, lines, x_files, result, cwd, batch, run, plot>>

NextDate == Call_date \/ DeriveDateStep \/ Return

SpecDate == Init /\ [][NextDate]_vars

\* the calendar as the claim reads it
ClaimLeap(y) == (y % 4 = 0 /\ y % 100 # 0) \/ y % 400 = 0

ClaimMonths(y) ==
    <<31, IF ClaimLeap(y) THEN 29 ELSE 28, 31, 30, 31, 30, 31, 31, 30, 31, 30, 31>>

RECURSIVE ClaimDaysBefore(_, _)
ClaimDaysBefore(y, m) ==
    IF m = 1 THEN 0 ELSE ClaimDaysBefore(y, m - 1) + ClaimMonths(y)[m - 1]

ClaimValidDoy(y, d) == 1 <= d /\ d <= (IF ClaimLeap(y) THEN 366 ELSE 365)

\* whether <<yy, m, dd>> is day d of year y
ClaimIsDayOfYear(date, y, d) ==
    \E m \in 1..12 :
        \E dd \in 1..ClaimMonths(y)[m] :
            date = <<y, m, dd>> /\ ClaimDaysBefore(y, m) + dd = d

\* C6: DATE is day d of year y when d is a day of that year (1..365, or 366
\* in a leap year), and missing for every other d.
C6_DateDerivation ==
    (op = "date" /\ pc = "done")
        => LET date == Column(ret, DATE)[1]
           IN  IF ClaimValidDoy(arg.y, arg.d)
               THEN ClaimIsDayOfYear(date, arg.y, arg.d)
               ELSE date = NaT

----------------------------------------------------------------------------
(* The crop directory resolver, utils.dssat_paths.get_crop_details: a list *)
(* of crops, each with a name, a directory and a file-extension code.      *)

get_crop_details ==
    << [name |-> <<"M", "a", "i", "z", "e">>,
        directory |-> <<"/", "M", "a", "i", "z", "e", " ">>,
        code |-> <<"M", "Z">>],
       [name |-> <<"F", "a", "l", "l", "o", "w">>,
        directory |-> <<" ">>,
        code |-> <<"F", "A">>] >>

\* the folder names callers pass: a crop in another case, a crop whose
\* directory is blank, and a name no crop has
Folders == { <<"M", "A", "I", "Z", "E">>, <<"F", "a", "l", "l", "o", "w">>,
             <<"R", "i", "c", "e">> }

\* next((crop for crop in crop_details if crop['name'].upper() ==
\* selected_folder.upper()), None): the crop's position, 0 for None
CropInfo(selected_folder) ==
    LET hit == SelectSeq([i \in 1..Len(get_crop_details) |-> i],
                   LAMBDA i : Upper(get_crop_details[i].name) = Upper(selected_folder))
    IN  IF hit = <<>> THEN 0 ELSE hit[1]

\* crop_info['directory'].strip(), for a crop that was found
FolderPath(selected_folder) == Strip(get_crop_details[CropInfo(selected_folder)].directory)

\* the two early returns every lookup ends in: no crop, or a blank directory
LookupFails(selected_folder) ==
    CropInfo(selected_folder) = 0 \/ FolderPath(selected_folder) = <<>>

----------------------------------------------------------------------------
(* read_treatments and prepare_treatment.                                  *)

TNAME == <<"T", "N", "A", "M", "E">>

STAR_TREATMENT == STAR \o TREATMENT

Spaces(n) == [i \in 1..n |-> " "]

NITROGEN_TRIAL == <<"N", "I", "T", "R", "O", "G", "E", "N", " ", "T", "R", "I", "A", "L">>

RAINFED_LOW == <<"R", "A", "I", "N", "F", "E", "D", " ", "L", "O", "W">>

\* "*TREATMENTS"
T_section == STAR_TREATMENT \o <<"S">>

\* "@N R O C TNAME"
T_header == <<"@", "N", " ", "R", " ", "O", " ", "C", " ">> \o TNAME

\* " 1 1 0 0 NITROGEN TRIAL": the name field starts at column 9
T_real == <<" ", "1", " ", "1", " ", "0", " ", "0", " ">> \o NITROGEN_TRIAL

\* "  1  NITROGEN TRIAL": the name starts at column 5
T_spec == <<" ", " ", "1", " ", " ">> \o NITROGEN_TRIAL

\* " 12 1 0 0RAINFED LOW" padded to column 36, then "1  0" from column 36 on
T_long == <<" ", "1", "2", " ", "1", " ", "0", " ", "0">> \o RAINFED_LOW
          \o Spaces(16) \o <<"1", " ", " ", "0">>

\* "*CULTIVARS"
T_other == STAR \o <<"C", "U", "L", "T", "I", "V", "A", "R", "S">>

CorpusTreat == {T_section, T_header, T_real, T_spec, T_long, T_other, L_blank}

TreatFiles == FilesOver(CorpusTreat)

EXPERIMENT_X == <<"F", "I", "L", "E", "1", ".", "M", "Z", "X">>

\* what a call is told about a path inside a crop folder
PathsIn(folders, names) ==
    [exists : BOOLEAN, denied : BOOLEAN, utf8 : BOOLEAN, name : names, folder : folders]

\* treatment_begins, 0-based; -1 for None
TreatmentBegins(ls) ==
    LET b == Indices(ls, LAMBDA l : StartsWith(l, STAR_TREATMENT))
    IN  IF b = <<>> THEN -1 ELSE b[1]

\* treatment_ends, 0-based
TreatmentEnds(ls) ==
    LET e == SelectSeq(Indices(ls, LAMBDA l : StartsWith(l, STAR)),
                       LAMBDA i : i > TreatmentBegins(ls))
    IN  IF e = <<>> THEN Len(ls) ELSE e[1]

NotTrashLines(ls) ==
    SelectSeq(PySlice(ls, TreatmentBegins(ls), TreatmentEnds(ls)),
              LAMBDA l : StartsWith(l, SP))

\* line[:3].strip()
TreatmentNumber(line) == Strip(PySlice(line, 0, 3))

\* TreatmentName with the field taken from column 5
TreatmentName_From5(line) == Strip(PySlice(line, 5, 36))

\* line[9:36].strip()
TreatmentName(line) == Strip(PySlice(line, 9, 36))

\* read_treatments, lines 292-314, given `lines`; the cells are strings, the
\* empty string among them
TreatmentsParse(ls) ==
    IF TreatmentBegins(ls) = -1 THEN RetNone
    ELSE RetDF(DataFrame(
            [k \in 1..Len(NotTrashLines(ls)) |->
                <<TreatmentNumber(NotTrashLines(ls)[k]), TreatmentName(NotTrashLines(ls)[k])>>],
            <<TR, TNAME>>))

Call_read_treatments ==
    /\ pc = "idle"
    /\ \E a \in PathsIn({<<>>}, {EXPERIMENT_X}) : arg' = a
    /\ op' = "read_treatments" /\ fn' = "read_treatments" /\ pc' = "exists"
    /\ UNCHANGED <<log, lines, ret, x_files, result, cwd, batch, run, plot>>

Call_prepare_treatment ==
    /\ pc = "idle"
    /\ \E a \in PathsIn(Folders, {EXPERIMENT_X}) : arg' = a
    /\ op' = "prepare_treatment" /\ fn' = "prepare_treatment" /\ pc' = "lookup"
    /\ UNCHANGED <<log, lines, ret, x_files, result, cwd, batch, run, plot>>

\* prepare_treatment: the crop lookup, then read_treatments on the joined path
PrepareTreatmentLookup ==
    /\ fn = "prepare_treatment" /\ pc = "lookup"
    /\ IF LookupFails(arg.folder)
       THEN ret' = RetNone /\ pc' = "done" /\ fn' = fn
       ELSE ret' = ret /\ pc' = "exists" /\ fn' = "read_treatments"
    /\ UNCHANGED <<op, arg, log, lines, x_files, result, cwd, batch, run, plot>>

\* read_treatments: if not os.path.exists(file_path): return None
TreatCheckExists ==
    /\ fn = "read_treatments" /\ pc = "exists"
    /\ IF ~arg.exists
       THEN ret' = RetNone /\ pc' = "done"
       ELSE ret' = ret /\ pc' = "open"
    /\ UNCHANGED <<op, fn, arg, log, lines, x_files, result, cwd, batch, run, plot>>

\* read_treatments: open(file_path, "r") and readlines(); a refused open or
\* undecodable bytes raise, and the function's handler returns None
TreatRead ==
    /\ fn = "read_treatments" /\ pc = "open"
    /\ IF arg.denied \/ ~arg.exists \/ ~arg.utf8
       THEN /\ ret' = Except(RetRaise, RetNone) /\ pc' = "done"
            /\ lines' = lines
       ELSE /\ \E content \in TreatFiles : lines' = content
            /\ pc' = "parse" /\ ret' = ret
    /\ UNCHANGED <<op, fn, arg, log, x_files, result, cwd, batch, run, plot>>

TreatParse ==
    /\ fn = "read_treatments" /\ pc = "parse"
    /\ ret' = Except(TreatmentsParse(lines), RetNone)
    /\ pc' = "done"
    /\ UNCHANGED <<op, fn, arg, log, lines, x_files, result, cwd, batch, run, plot>>

NextTreat ==
    \/ Call_read_treatments
    \/ Call_prepare_treatment
    \/ PrepareTreatmentLookup
    \/ TreatCheckExists
    \/ TreatRead
    \/ TreatParse
    \/ Return

SpecTreat == Init /\ [][NextTreat]_vars

\* the lines of the *TREATMENT section as the claim reads it: after the first
\* line that starts with "*TREATMENT", before the next line that starts with "*"
ClaimSectionPositions(ls) ==
    {i \in 1..Len(ls) :
        \E b \in 1..(i - 1) :
            /\ StartsWith(ls[b], STAR_TREATMENT)
            /\ \A j \in 1..(b - 1) : ~StartsWith(ls[j], STAR_TREATMENT)
            /\ \A j \in (b + 1)..i : ~StartsWith(ls[j], STAR)}

\* the kept lines: the section's lines that begin with a space, ascending
ClaimKept(ls) ==
    SelectSeq([i \in 1..Len(ls) |-> i],
              LAMBDA i : i \in ClaimSectionPositions(ls) /\ ls[i][1] = " ")

\* the characters of columns a..b (0-based, inclusive) of a line, trimmed
ClaimField(line, a, b) ==
    Strip([i \in 1..(Min(Len(line), b + 1) - a) |-> line[a + i]])

TreatmentsReturned == fn = "read_treatments" /\ pc = "done" /\ ret.kind = "DataFrame"

\* C7 as stated: a *TREATMENT section with the row "  1  NITROGEN TRIAL"
\* gives a record with number "1" and name "NITROGEN TRIAL".
C7_SpecRowRecord ==
    (TreatmentsReturned /\ \E i \in ClaimSectionPositions(lines) : lines[i] = T_spec)
        => \E r \in 1..Len(ret.rows) : ret.rows[r] = <<ONE, NITROGEN_TRIAL>>

\* C7 amended: the records are the kept lines in order, number = columns 0-2
\* trimmed, name = columns 9-35 trimmed; so " 1 1 0 0 NITROGEN TRIAL" gives
\* ("1", "NITROGEN TRIAL") and "  1  NITROGEN TRIAL" gives ("1", "OGEN TRIAL").
C7_TreatmentRecords ==
    TreatmentsReturned
        => /\ ret.cols = <<TR, TNAME>>
           /\ Len(ret.rows) = Len(ClaimKept(lines))
           /\ \A k \in 1..Len(ret.rows) :
                LET line == lines[ClaimKept(lines)[k]]
                IN  /\ ret.rows[k] = <<ClaimField(line, 0, 2), ClaimField(line, 9, 35)>>
                    /\ line = T_real => ret.rows[k] = <<ONE, NITROGEN_TRIAL>>
                    /\ line = T_spec =>
                          ret.rows[k] = <<ONE, <<"O", "G", "E", "N", " ", "T", "R", "I", "A", "L">> >>
                    /\ line = T_long => ret.rows[k] = << <<"1", "2">>, RAINFED_LOW>>

\* a section holding both example rows, each with its record
C7_Witness ==
    /\ TreatmentsReturned /\ Len(ret.rows) >= 2
    /\ \E i, j \in ClaimSectionPositions(lines) : lines[i] = T_real /\ lines[j] = T_spec

----------------------------------------------------------------------------
(* prepare_experiment and prepare_out_files: the listings of a crop folder. *)

MaxFiles == 2

EXP_DETAILS == <<"*", "E", "X", "P", ".", "D", "E", "T", "A", "I", "L", "S", ":">>

TRIAL_ONE == <<"T", "R", "I", "A", "L", " ", "O", "N", "E">>

\* "*EXP.DETAILS: MAIZE1 TRIAL ONE"
X_details == EXP_DETAILS \o <<" ", "M", "A", "I", "Z", "E", "1", " ">> \o TRIAL_ONE

\* "*GENERAL"
X_general == STAR \o <<"G", "E", "N", "E", "R", "A", "L">>

\* " x *EXP.DETAILS:  A   B  C ": text before the marker, runs of blanks
X_spaced == <<" ", "x", " ">> \o EXP_DETAILS
            \o <<" ", " ", "A", " ", " ", " ", "B", " ", " ", "C", " ">>

\* "*EXP.DETAILS: ONLY": one token after the marker
X_only == EXP_DETAILS \o <<" ", "O", "N", "L", "Y">>

FILE1_MZX == EXPERIMENT_X

FILE2_MZX == <<"F", "I", "L", "E", "2", ".", "M", "Z", "X">>

FILE1_MZT == <<"F", "I", "L", "E", "1", ".", "M", "Z", "T">>

DOT_OUT == <<".", "O", "U", "T">>

\* the texts an experiment file can hold
ExpTexts == { <<X_details, X_general>>, <<X_general>>, <<X_general, X_details>>,
              <<X_spaced, X_details>>, <<X_only>>, <<>> }

\* a file of the folder: its name, its lines, and the line at whose fetch the
\* read raises (0: never; 1: open() itself or the first chunk)
\* beside the experiment files, the folder holds a file of another kind
ExpFiles ==
    [name : {FILE1_MZX, FILE2_MZX}, lines : ExpTexts, failAt : 0..2]
        \cup [name : {FILE1_MZT}, lines : {<<X_details>>}, failAt : {0}]

OutFiles == [name : {FORAGE_OUT, PLANTGRO_OUT, FILE1_MZX}, lines : {<<>>}, failAt : {0}]

\* the directory listings: at most MaxFiles files, no name twice
Listings(files) ==
    {l \in UNION {[1..n -> files] : n \in 0..MaxFiles} :
        \A i, j \in 1..Len(l) : i # j => l[i].name # l[j].name}

\* a folder name and what the crop's directory holds, when there is one
Dirs(files) ==
    [folder : {f \in Folders : ~LookupFails(f)}, exists : {TRUE}, listing : Listings(files)]
        \cup [folder : Folders, exists : {FALSE}, listing : {<<>>}]

\* glob.glob(os.path.join(folder_path, "*.<code>X")): the pattern's match on
\* a file name; a leading "*" does not match a hidden file
GlobMatch(name, code) ==
    /\ EndsWith(name, <<".">> \o code \o <<"X">>)
    /\ name[1] # "."

\* x_files, line 52
XFiles(dir) ==
    IF dir.exists
    THEN SelectSeq(dir.listing,
            LAMBDA f : GlobMatch(f.name, get_crop_details[CropInfo(dir.folder)].code))
    ELSE <<>>

\* the lines `for line in file` yields before the read raises
Yielded(file) ==
    IF file.failAt = 0 THEN file.lines
    ELSE PySlice(file.lines, 0, file.failAt - 1)

\* line.strip().split("*EXP.DETAILS:")[1].strip()
DetailPart(line) ==
    LET s     == Strip(line)
        after == PyFrom(s, Find(s, EXP_DETAILS) - 1 + Len(EXP_DETAILS))
    IN  Strip(IF Contains(after, EXP_DETAILS)
              THEN PySlice(after, 0, Find(after, EXP_DETAILS) - 1)
              ELSE after)

\* ExpTitle with every token kept
ExpTitle_AllTokens(line) == Join(Split(DetailPart(line)), SP)

\* ' '.join(detail_part.split()[1:])
ExpTitle(line) == Join(PyFrom(Split(DetailPart(line)), 1), SP)

\* exp_detail, lines 58-71: the title of the first yielded line that holds
\* the marker; the filename when there is none or the read raised before one
ExpDetail(file) ==
    LET hit == SelectSeq(Yielded(file), LAMBDA l : Contains(l, EXP_DETAILS))
    IN  IF hit = <<>> THEN file.name ELSE ExpTitle(hit[1])

Call_prepare_experiment ==
    /\ pc = "idle"
    /\ \E d \in Dirs(ExpFiles) : arg' = d
    /\ op' = "prepare_experiment" /\ fn' = "prepare_experiment" /\ pc' = "lookup"
    /\ UNCHANGED <<log, lines, ret, x_files, result, cwd, batch, run, plot>>

\* lines 31-55: the lookup, the glob, result = []
ExpLookup ==
    /\ fn = "prepare_experiment" /\ pc = "lookup"
    /\ IF LookupFails(arg.folder)
       THEN /\ ret' = RetList(<<>>) /\ pc' = "done"
            /\ UNCHANGED <<x_files, result>>
       ELSE /\ x_files' = XFiles(arg) /\ result' = <<>>
            /\ pc' = "loop" /\ ret' = ret
    /\ UNCHANGED <<op, fn, arg, log, lines, cwd, batch, run, plot>>

\* one turn of `for file_path in x_files`, lines 56-75
ExpFile ==
    /\ fn = "prepare_experiment" /\ pc = "loop" /\ x_files # <<>>
    /\ result' = Append(result, <<ExpDetail(Head(x_files)), Head(x_files).name>>)
    /\ x_files' = Tail(x_files)
    /\ UNCHANGED <<op, fn, pc, arg, log, lines, ret, cwd, batch, run, plot>>

\* return result, line 78
ExpReturn ==
    /\ fn = "prepare_experiment" /\ pc = "loop" /\ x_files = <<>>
    /\ ret' = Except(RetList(result), RetList(<<>>))
    /\ pc' = "done"
    /\ UNCHANGED <<op, fn, arg, log, lines, x_files, result, cwd, batch, run, plot>>

Call_prepare_out_files ==
    /\ pc = "idle"
    /\ \E d \in Dirs(OutFiles) : arg' = d
    /\ op' = "prepare_out_files" /\ fn' = "prepare_out_files" /\ pc' = "lookup"
    /\ UNCHANGED <<log, lines, ret, x_files, result, cwd, batch, run, plot>>

\* os.listdir(folder_path) filtered on ".OUT"; listdir raises on a directory
\* that does not exist
OutFilesList(dir) ==
    IF ~dir.exists THEN RetRaise
    ELSE RetList([i \in 1..Len(SelectSeq(dir.listing, LAMBDA f : EndsWith(f.name, DOT_OUT))) |->
            SelectSeq(dir.listing, LAMBDA f : EndsWith(f.name, DOT_OUT))[i].name])

\* prepare_out_files, lines 322-348
OutFilesStep ==
    /\ fn = "prepare_out_files" /\ pc = "lookup"
    /\ ret' = IF LookupFails(arg.folder) THEN RetList(<<>>)
              ELSE Except(OutFilesList(arg), RetList(<<>>))
    /\ pc' = "done"
    /\ UNCHANGED <<op, fn, arg, log, lines, x_files, result, cwd, batch, run, plot>>

NextExp ==
    \/ Call_prepare_experiment
    \/ ExpLookup
    \/ ExpFile
    \/ ExpReturn
    \/ Call_prepare_out_files
    \/ OutFilesStep
    \/ Return

SpecExp == Init /\ [][NextExp]_vars

\* the files of the folder whose name ends in ".<code>X", in listing order
ClaimMatching(dir) ==
    SelectSeq(dir.listing,
        LAMBDA f : EndsWith(f.name, <<".">> \o get_crop_details[CropInfo(dir.folder)].code \o <<"X">>))

\* where the marker starts in a line (1-based), 0 when the line has none
ClaimMarkerAt(line) ==
    LET at == {k \in 1..(Len(line) - Len(EXP_DETAILS) + 1) :
                  \A c \in 1..Len(EXP_DETAILS) : line[k + c - 1] = EXP_DETAILS[c]}
    IN  IF at = {} THEN 0 ELSE CHOOSE k \in at : \A j \in at : k <= j

\* the positions of the file's lines that contain the marker
ClaimMarkerLines(f) == {i \in 1..Len(f.lines) : ClaimMarkerAt(f.lines[i]) # 0}

\* reading the file fails: the read raises at a line no marker line precedes
ClaimReadFails(f) ==
    /\ f.failAt \in 1..(Len(f.lines) + 1)
    /\ \A i \in ClaimMarkerLines(f) : i >= f.failAt

\* the tokens after the marker, the first one dropped, joined by one space
ClaimTitle(line) ==
    LET toks == Split(SubSeq(line, ClaimMarkerAt(line) + Len(EXP_DETAILS), Len(line)))
    IN  IF toks = <<>> THEN <<>> ELSE Join(Tail(toks), SP)

ExperimentsReturned ==
    op = "prepare_experiment" /\ pc = "done" /\ ~LookupFails(arg.folder)

\* C8: prepare_experiment returns one (title, filename) pair per matching file,
\* in listing order; the title is the tokens after the first token after the
\* marker on the first line that contains it, joined by single spaces, and the
\* filename when no line has the marker or the read fails; a file whose read
\* fails keeps its pair and costs no other file its pair.
C8_ExperimentPairs ==
    ExperimentsReturned =>
        LET m == ClaimMatching(arg)
        IN  /\ ret.kind = "list"
            /\ Len(ret.rows) = Len(m)
            /\ \A k \in 1..Len(m) :
                 LET f == m[k]
                     first == CHOOSE i \in ClaimMarkerLines(f) :
                                 \A j \in ClaimMarkerLines(f) : i <= j
                 IN  /\ ret.rows[k][2] = f.name
                     /\ ret.rows[k][1] =
                            IF ClaimReadFails(f) \/ ClaimMarkerLines(f) = {}
                            THEN f.name
                            ELSE ClaimTitle(f.lines[first])
                     /\ (f.lines = <<X_details, X_general>> /\ f.failAt = 0)
                            => ret.rows[k][1] = TRIAL_ONE
                     /\ f.lines = <<X_general>> => ret.rows[k][1] = f.name

\* FILE1.MZX with the title line beside a FILE2.MZX whose read fails, and a
\* file of another kind in no pair
C8_Witness ==
    /\ ExperimentsReturned
    /\ \E i, j \in 1..Len(ret.rows) :
          /\ ret.rows[i] = <<TRIAL_ONE, FILE1_MZX>>
          /\ ret.rows[j] = <<FILE2_MZX, FILE2_MZX>>
          /\ ClaimReadFails(ClaimMatching(arg)[j])
          /\ ClaimMarkerLines(ClaimMatching(arg)[j]) # {}

----------------------------------------------------------------------------
(* read_observed_data and read_evaluate_file: one header, the rows after   *)
(* it, and the pandas constructor on the rows as they are.                 *)

\* header_idx: the first line whose trimmed text starts with "@"; -1 for None
ScanHeaderIndex(ls) ==
    LET h == Indices(ls, LAMBDA l : StartsWith(Strip(l), AT))
    IN  IF h = <<>> THEN -1 ELSE h[1]

\* content[header_idx].strip().lstrip("@").split()
ScanHeaders(ls) == Split(LStripCh(Strip(ls[ScanHeaderIndex(ls) + 1]), "@"))

\* line.strip().split() for the lines after the header with
\* line.strip() and not line.startswith("*")
ScanDataRows(ls) ==
    LET kept == SelectSeq(PyFrom(ls, ScanHeaderIndex(ls) + 1), BlockKeeps)
    IN  [k \in 1..Len(kept) |-> Split(Strip(kept[k]))]

\* the widest row of a non-empty list of rows
Widest(data) ==
    CHOOSE w \in {Len(data[k]) : k \in 1..Len(data)} :
        \A k \in 1..Len(data) : Len(data[k]) <= w

\* pandas' DataFrame(list_of_lists, columns=...): the rows are padded with
\* None to the widest row, and the constructor raises ValueError when that
\* width is not the number of column names
PdDataFrame(data, columns) ==
    IF Widest(data) # Len(columns) THEN RetRaise
    ELSE RetDF(DataFrame(
            [k \in 1..Len(data) |-> data[k] \o Nones(Len(columns) - Len(data[k]))],
            columns))

\* df.rename(columns={a: b})
RenameCol(df, a, b) ==
    [df EXCEPT !.cols = [i \in 1..Len(df.cols) |-> IF df.cols[i] = a THEN b ELSE df.cols[i]]]

\* data.data_processing.unified_date_convert followed by strftime("%Y-%m-%d"):
\* a YYYYDDD text gives the date's text, anything else is missing
unified_date_convert(date_str) ==
    LET d == IF Len(date_str) = 7 THEN ToDatetimeYj(date_str) ELSE NaT
    IN  IF d = NaT THEN None
        ELSE ZFill(IntToStr(d[1]), 4) \o <<"-">> \o ZFill(IntToStr(d[2]), 2)
             \o <<"-">> \o ZFill(IntToStr(d[3]), 2)

\* str(x) of a cell
PyStr(cell) == IF cell = None THEN <<"N", "o", "n", "e">> ELSE cell

\* df.dropna(subset=[c])
DropNa(df, c) ==
    [df EXCEPT !.rows = SelectSeq(df.rows, LAMBDA row : row[ColIdx(df, c)] # None)]

\* "Process DATE column", lines 532-535
ObservedDate(df) ==
    IF HasCol(df, DATE)
    THEN DropNa(SetItem(df, DATE,
            [r \in 1..Len(df.rows) |-> unified_date_convert(PyStr(Column(df, DATE)[r]))]), DATE)
    ELSE df

RECURSIVE ObservedAsStr(_, _)
\* "Process treatment columns": df[col] = df[col].astype(str) for the columns
\* of the list that the frame has
ObservedAsStr(df, names) ==
    IF names = <<>> THEN df
    ELSE ObservedAsStr(
            IF HasCol(df, Head(names))
            THEN SetItem(df, Head(names),
                    [r \in 1..Len(df.rows) |-> PyStr(Column(df, Head(names))[r])])
            ELSE df,
            Tail(names))

\* read_observed_data, lines 500-550, given `content`; y_vars only adds names
\* the frame has to required_vars, so TRT alone can be missing
ObservedParse(content) ==
    IF ScanHeaderIndex(content) = -1 THEN RetNone
    ELSE IF ScanDataRows(content) = <<>> THEN RetNone
    ELSE LET headers == [i \in 1..Len(ScanHeaders(content)) |-> Upper(ScanHeaders(content)[i])]
             made    == PdDataFrame(ScanDataRows(content), headers)
             renamed == RenameCol(RenameCol(RenameCol(made, TRNO, TRT), TR, TRT), TN, TRT)
             df      == ObservedAsStr(ObservedDate(standardize_dtypes(DropAllNa(renamed))),
                                      <<TRNO, TRT, TR, TN>>)
         IN  IF made.kind = "raise" THEN RetRaise
             ELSE IF ~HasCol(df, TRT) THEN RetNone
             ELSE RetDF(df)

\* to_numeric(cell, errors='coerce') on a token: an integer literal becomes
\* the number (written in its canonical form), any other text is missing
ToNumeric(cell) ==
    IF cell = None THEN None
    ELSE IF IsDigit(cell) THEN IntToStr(StrToInt(cell))
    ELSE IF Len(cell) > 1 /\ cell[1] = "-" /\ IsDigit(Tail(cell))
         THEN (IF StrToInt(Tail(cell)) = 0 THEN <<"0">>
               ELSE <<"-">> \o IntToStr(StrToInt(Tail(cell))))
    ELSE None

\* lines 764-769: every column through to_numeric, then every missing-value
\* sentinel replaced by NaN
EvaluateNumeric(df) ==
    [df EXCEPT !.rows =
        [r \in 1..Len(df.rows) |->
            [k \in 1..Len(df.cols) |->
                IF ToNumeric(df.rows[r][k]) \in MISSING_VALUES THEN None
                ELSE ToNumeric(df.rows[r][k])]]]

\* lines 772-786: the first column whose upper-cased name is a treatment
\* alias is renamed to TRNO; with none, TRNO = 1 is added
EvaluateTrno(df) ==
    LET found == SelectSeq(df.cols, LAMBDA c : Upper(c) \in {TRNO, TR, TRT, TN})
    IN  IF found = <<>> THEN SetConst(df, TRNO, ONE)
        ELSE IF found[1] # TRNO THEN RenameCol(df, found[1], TRNO)
        ELSE df

\* whether a name occurs twice among the column names
HasDuplicates(cols) == \E i, j \in 1..Len(cols) : i # j /\ cols[i] = cols[j]

\* read_evaluate_file, lines 734-792, given `lines`; with a column name held
\* twice df[col] is a frame and to_numeric raises TypeError
EvaluateParse(ls) ==
    IF ScanHeaderIndex(ls) = -1 THEN RetNone
    ELSE IF ScanDataRows(ls) = <<>> THEN RetNone
    ELSE LET made == PdDataFrame(ScanDataRows(ls), ScanHeaders(ls))
         IN  IF made.kind = "raise" \/ HasDuplicates(made.cols) THEN RetRaise
             ELSE RetDF(standardize_dtypes(EvaluateTrno(EvaluateNumeric(made))))

\* "@trno date"
O_h == <<"@", "t", "r", "n", "o", " ", "d", "a", "t", "e">>

\* "1 2023001"
O_r == <<"1", " ", "2", "0", "2", "3", "0", "0", "1">>

\* "2 x"
O_bad == <<"2", " ", "x">>

\* "3"
O_short == <<"3">>

\* "1 2 3"
O_long == <<"1", " ", "2", " ", "3">>

\* "@tr A"
E_h == <<"@", "t", "r", " ", "A">>

\* "007 -99"
E_r == <<"0", "0", "7", " ", "-", "9", "9">>

\* "@A A"
E_dup == <<"@", "A", " ", "A">>

\* "@TR TRNO": two treatment aliases
E_h2 == <<"@", "T", "R", " ", "T", "R", "N", "O">>

CorpusObs == {O_h, L_hAB, L_hTRNO, O_r, O_bad, O_short, O_long, L_icom}

CorpusEval == {E_h, E_h2, L_hAB, E_dup, E_r, L_r3, O_long, L_icom}

EVALUATE_OUT == <<"E", "V", "A", "L", "U", "A", "T", "E">> \o DOT_OUT

Call_read_observed_data ==
    /\ pc = "idle"
    /\ \E a \in PathsIn(Folders, {FILE1_MZT}) : arg' = a
    /\ op' = "read_observed_data" /\ fn' = "read_observed_data" /\ pc' = "lookup"
    /\ UNCHANGED <<log, lines, ret, x_files, result, cwd, batch, run, plot>>

\* lines 468-493: the crop lookup and the glob for <base_name>.<code>T
ObservedLookup ==
    /\ fn = "read_observed_data" /\ pc = "lookup"
    /\ IF CropInfo(arg.folder) = 0 \/ ~arg.exists
       THEN ret' = RetNone /\ pc' = "done"
       ELSE ret' = ret /\ pc' = "open"
    /\ UNCHANGED <<op, fn, arg, log, lines, x_files, result, cwd, batch, run, plot>>

\* lines 497-498: open(t_file, "r") and readlines()
ObservedRead ==
    /\ fn = "read_observed_data" /\ pc = "open"
    /\ IF arg.denied \/ ~arg.utf8
       THEN /\ ret' = Except(RetRaise, RetNone) /\ pc' = "done"
            /\ lines' = lines
       ELSE /\ \E content \in FilesOver(CorpusObs) : lines' = content
            /\ pc' = "parse" /\ ret' = ret
    /\ UNCHANGED <<op, fn, arg, log, x_files, result, cwd, batch, run, plot>>

ObservedParseStep ==
    /\ fn = "read_observed_data" /\ pc = "parse"
    /\ ret' = Except(ObservedParse(lines), RetNone)
    /\ pc' = "done"
    /\ UNCHANGED <<op, fn, arg, log, lines, x_files, result, cwd, batch, run, plot>>

Call_read_evaluate_file ==
    /\ pc = "idle"
    /\ \E a \in PathsIn(Folders, {EVALUATE_OUT}) : arg' = a
    /\ op' = "read_evaluate_file" /\ fn' = "read_evaluate_file" /\ pc' = "lookup"
    /\ UNCHANGED <<log, lines, ret, x_files, result, cwd, batch, run, plot>>

\* lines 707-724: the crop lookup and os.path.exists(evaluate_path)
EvaluateLookup ==
    /\ fn = "read_evaluate_file" /\ pc = "lookup"
    /\ IF CropInfo(arg.folder) = 0 \/ ~arg.exists
       THEN ret' = RetNone /\ pc' = "done"
       ELSE ret' = ret /\ pc' = "open"
    /\ UNCHANGED <<op, fn, arg, log, lines, x_files, result, cwd, batch, run, plot>>

\* lines 727-732: utf-8, and latin-1 after UnicodeDecodeError; OSError leaves
\* the inner try and is caught by the function's handler
EvaluateRead ==
    /\ fn = "read_evaluate_file" /\ pc = "open"
    /\ IF arg.denied
       THEN /\ log' = <<[enc |-> "utf-8", outcome |-> "OSError"]>>
            /\ ret' = Except(RetRaise, RetNone) /\ pc' = "done"
            /\ lines' = lines
       ELSE IF arg.utf8
       THEN /\ log' = <<[enc |-> "utf-8", outcome |-> "ok"]>>
            /\ \E content \in FilesOver(CorpusEval) : lines' = content
            /\ pc' = "parse" /\ ret' = ret
       ELSE /\ log' = <<[enc |-> "utf-8", outcome |-> "UnicodeDecodeError"],
                        [enc |-> "latin-1", outcome |-> "ok"]>>
            /\ \E content \in Latin1Files : lines' = content
            /\ pc' = "parse" /\ ret' = ret
    /\ UNCHANGED <<op, fn, arg, x_files, result, cwd, batch, run, plot>>

EvaluateParseStep ==
    /\ fn = "read_evaluate_file" /\ pc = "parse"
    /\ ret' = Except(EvaluateParse(lines), RetNone)
    /\ pc' = "done"
    /\ UNCHANGED <<op, fn, arg, log, lines, x_files, result, cwd, batch, run, plot>>

----------------------------------------------------------------------------
(* Every read operation of the module, one call at a time.                 *)

Next ==
    \/ Call_read_file
    \/ Call_read_forage_file
    \/ Call_modify_read_file
    \/ ModifyDispatch
    \/ CheckExists
    \/ OpenAttempt
    \/ Parse
    \/ Call_read_treatments
    \/ Call_prepare_treatment
    \/ PrepareTreatmentLookup
    \/ TreatCheckExists
    \/ TreatRead
    \/ TreatParse
    \/ Call_prepare_experiment
    \/ ExpLookup
    \/ ExpFile
    \/ ExpReturn
    \/ Call_prepare_out_files
    \/ OutFilesStep
    \/ Call_read_observed_data
    \/ ObservedLookup
    \/ ObservedRead
    \/ ObservedParseStep
    \/ Call_read_evaluate_file
    \/ EvaluateLookup
    \/ EvaluateRead
    \/ EvaluateParseStep
    \/ Return

Spec == Init /\ [][Next]_vars

ListOps == {"prepare_experiment", "prepare_out_files"}

\* the operations that take a crop folder name
FolderOps == {"prepare_treatment", "prepare_experiment", "prepare_out_files",
              "read_observed_data", "read_evaluate_file"}

\* the operations that scan a file for "@" header lines and data rows
ScanOps == {"read_file", "read_forage_file", "modify_read_file",
            "read_observed_data", "read_evaluate_file"}

TreatmentOps == {"read_treatments", "prepare_treatment"}

\* "no data" as the operation's kind of result has it
ClaimNoData == IF op \in ListOps THEN RetList(<<>>) ELSE RetNone

ClaimMissingFile == ~arg.exists

ClaimUnresolvable == op \in FolderOps /\ CropInfo(arg.folder) = 0

ClaimNoHeaderLine ==
    \/ op \in ScanOps /\ \A i \in 1..Len(lines) : ~ClaimIsHeader(lines[i])
    \/ op \in TreatmentOps /\ \A i \in 1..Len(lines) : ~StartsWith(lines[i], STAR_TREATMENT)

\* header lines, and no line after trimming that is a data row
ClaimHeadersButNoRows ==
    /\ op \in ScanOps
    /\ \E i \in 1..Len(lines) : ClaimIsHeader(lines[i])
    /\ \A i \in 1..Len(lines) : ~ClaimIsData(lines[i])

\* C10: no read operation hands an exception to its caller, and on a missing
\* file, an unresolvable crop name, a file with no header line and a file with
\* headers but no data rows the result is None (the empty list for
\* prepare_experiment and prepare_out_files).
C10_NoErrorPropagates ==
    pc = "done" /\ op \in ScanOps \cup TreatmentOps \cup ListOps
        => /\ ret.kind # "raise"
           /\ (ClaimMissingFile \/ ClaimUnresolvable \/ ClaimNoHeaderLine
                 \/ ClaimHeadersButNoRows) => ret = ClaimNoData

----------------------------------------------------------------------------
(* Claims about the readers' handling of rows, columns and dates, under    *)
(* Spec.                                                                   *)

RowReaders == {"read_file", "read_forage_file", "modify_read_file",
               "read_observed_data", "read_evaluate_file"}

\* a file that was read and is one header line, its names distinct, followed
\* by data lines only
ClaimOneBlockFile(ls) ==
    /\ Len(ls) >= 2
    /\ ClaimIsHeader(ls[1])
    /\ \A i \in 2..Len(ls) : ClaimIsData(ls[i])
    /\ NoTreatmentLine(ls)
    /\ ~HasDuplicates(Split(LStripCh(Strip(ls[1]), "@")))

\* the column names of the header line, as written
ClaimHeaderTokens(ls) == Split(LStripCh(Strip(ls[1]), "@"))

\* the rows whose token count is the header's
ClaimWellFormed(ls) ==
    {i \in 2..Len(ls) : Len(Split(ls[i])) = Len(ClaimHeaderTokens(ls))}

\* the well-formed rows the reader has no other reason to leave out: in
\* read_observed_data a row needs a date that parses when there is a DATE column
ClaimRowsDue(ls) ==
    {i \in ClaimWellFormed(ls) :
        op = "read_observed_data" =>
            \A k \in 1..Len(ClaimHeaderTokens(ls)) :
                Upper(ClaimHeaderTokens(ls)[k]) = DATE
                    => unified_date_convert(Split(ls[i])[k]) # None}

\* read_observed_data returns None for a table without a treatment column
ClaimHasTreatmentColumn(ls) ==
    op = "read_observed_data" =>
        \E k \in 1..Len(ClaimHeaderTokens(ls)) :
            Upper(ClaimHeaderTokens(ls)[k]) \in {TRT, TRNO, TR, TN}

\* C11: a data row with more or fewer tokens than the header never makes the
\* parse fail: a file of one header and data rows, some of them well-formed,
\* is returned as a table that holds at least the well-formed rows.
C11_RaggedRowKept ==
    (pc = "done" /\ op \in RowReaders /\ ClaimOneBlockFile(lines)
        /\ ClaimWellFormed(lines) # {} /\ ClaimHasTreatmentColumn(lines))
        => /\ ret.kind = "DataFrame"
           /\ Len(ret.rows) >= Cardinality(ClaimRowsDue(lines))

----------------------------------------------------------------------------
(* The step that drops the all-missing columns, on its own.                *)

MaxRows == 2

\* df.dropna(axis=1, how='all') of ForagePlotWidget.prepare_data: a column
\* goes when the count of its present cells is zero
DropnaColumns(df) ==
    LET count(i) == Cardinality({r \in 1..Len(df.rows) : df.rows[r][i] # None})
        drop     == {i \in 1..Len(df.cols) : count(i) = 0}
        keep     == SelectSeq([i \in 1..Len(df.cols) |-> i], LAMBDA i : i \notin drop)
    IN  [cols |-> [k \in 1..Len(keep) |-> df.cols[keep[k]]],
         rows |-> [r \in 1..Len(df.rows) |->
                     [k \in 1..Len(keep) |-> df.rows[r][keep[k]]]]]

\* the tables the step is given: up to MaxCols columns and MaxRows rows, each
\* cell a token or missing
DropTables ==
    UNION { [cols : {SubSeq(ColNames, 1, n)},
             rows : [1..r -> [1..n -> {None, ONE}]]]
            : <<n, r>> \in (1..MaxCols) \X (0..MaxRows) }

DropSites == {"read_file", "read_forage_file", "read_observed_data", "prepare_data"}

\* the step as the function fn has it
DropStepOf(f, df) == IF f = "prepare_data" THEN DropnaColumns(df) ELSE DropAllNa(df)

Call_drop ==
    /\ pc = "idle"
    /\ \E t \in DropTables, f \in DropSites : arg' = t /\ fn' = f
    /\ op' = "drop" /\ pc' = "drop"
    /\ UNCHANGED <<log, lines, ret, x_files, result, cwd, batch, run, plot>>

\* the step applied to the table
DropOnce ==
    /\ op = "drop" /\ pc = "drop"
    /\ ret' = RetDF(DropStepOf(fn, arg))
    /\ pc' = "again"
    /\ UNCHANGED <<op, fn, arg, log, lines, x_files, result, cwd, batch, run, plot>>

\* the step applied to its own result
DropAgain ==
    /\ op = "drop" /\ pc = "again"
    /\ ret' = RetDF(DropStepOf(fn, ret))
    /\ pc' = "done"
    /\ UNCHANGED <<op, fn, arg, log, lines, x_files, result, cwd, batch, run, plot>>

NextDrop == Call_drop \/ DropOnce \/ DropAgain \/ Return

SpecDrop == Init /\ [][NextDrop]_vars

\* the positions of the columns of a table that have a non-missing cell
ClaimPresent(t) ==
    {i \in 1..Len(t.cols) : \E r \in 1..Len(t.rows) : t.rows[r][i] # None}

\* whether out is t cut down to the columns at the positions of keep, in order
ClaimCutTo(out, t, keep) ==
    /\ Len(out.cols) = Cardinality(keep)
    /\ Len(out.rows) = Len(t.rows)
    /\ \E f \in [1..Len(out.cols) -> keep] :
          /\ \A a, b \in 1..Len(out.cols) : a < b => f[a] < f[b]
          /\ \A k \in 1..Len(out.cols) :
                /\ out.cols[k] = t.cols[f[k]]
                /\ \A r \in 1..Len(t.rows) : out.rows[r][k] = t.rows[r][f[k]]

\* C12: dropping the all-missing columns keeps exactly the columns with a
\* non-missing cell, in their order and with their cells, and a second
\* application returns what the first returned.
C12_DropAllMissing ==
    (op = "drop" /\ pc \in {"again", "done"})
        => ClaimCutTo(ret, arg, ClaimPresent(arg))

\* a table that lost a column between two kept ones, after the second
\* application
C12_Witness ==
    /\ op = "drop" /\ pc = "done"
    /\ Len(arg.cols) = 3 /\ ClaimPresent(arg) = {1, 3}
    /\ ret.cols = << <<"A">>, <<"C">> >>

----------------------------------------------------------------------------

\* C13: every table a reader returns has pairwise distinct column names, and
\* every row has one cell per column.
C13_DistinctColumns ==
    (pc = "done" /\ op \in RowReaders \cup TreatmentOps /\ ret.kind = "DataFrame")
        => /\ \A i, j \in 1..Len(ret.cols) : i # j => ret.cols[i] # ret.cols[j]
           /\ \A r \in 1..Len(ret.rows) : Len(ret.rows[r]) = Len(ret.cols)

----------------------------------------------------------------------------
(* create_batch_file and run_treatment: the operations with side effects.  *)

MaxTreatments == 2

\* plot_data: the treatments in the data, the y variables chosen, the x values
MaxTrt == 3

MaxVars == 2

MaxX == 2

DSSAT_BASE == <<"/", "D", "S", "S", "A", "T", "4", "8">>

DSCSM048 == <<"D", "S", "C", "S", "M", "0", "4", "8", ".", "E", "X", "E">>

BATCHFILE_V48 == <<"B", "a", "t", "c", "h", "F", "i", "l", "e", ".", "v", "4", "8">>

\* a failure leaving the function, by its exception class
Raise(cls) == [kind |-> "raise", cols |-> <<>>, rows |-> <<cls>>]

\* a returned str
RetStr(text) == [kind |-> "str", cols |-> <<>>, rows |-> text]

\* os.path.join(a, b) for a directory a without a trailing separator
PathJoin(a, b) == IF StartsWith(b, <<"/">>) THEN b ELSE a \o <<"/">> \o b

\* int(text): [ok, val]; surrounding blanks and a sign are allowed, anything
\* else than digits raises ValueError
PyInt(text) ==
    LET t    == Strip(text)
        body == IF t # <<>> /\ t[1] \in {"+", "-"} THEN Tail(t) ELSE t
    IN  IF IsDigit(body)
        THEN [ok |-> TRUE,
              val |-> IF t[1] = "-" THEN 0 - StrToInt(body) ELSE StrToInt(body)]
        ELSE [ok |-> FALSE, val |-> 0]

\* str(n) for an integer
PyStrInt(n) == IF n < 0 THEN <<"-">> \o IntToStr(0 - n) ELSE IntToStr(n)

\* f"{text:<width}" and f"{text:>width}"
PadRight(text, width) == text \o Spaces(width - Len(text))

PadLeft(text, width) == Spaces(width - Len(text)) \o text

\* lines 577-579: a treatment given as one string is a list of one
Treatments(input) == IF input.is_str THEN <<input.treatment>> ELSE input.treatment

\* the eight lines that open the batch file, lines 593-602
BatchHeader(input, crop, folder_path) ==
    << <<"$", "B", "A", "T", "C", "H", "(">> \o crop.code \o <<")">>,
       <<"!">>,
       <<"!", " ", "D", "i", "r", "e", "c", "t", "o", "r", "y", " ", " ", " ", " ", ":", " ">> \o folder_path,
       <<"!", " ", "C", "o", "m", "m", "a", "n", "d", " ", "L", "i", "n", "e", " ", ":", " ">> \o PathJoin(DSSAT_BASE, input.executables)
           \o <<" ", "B", " ", "B", "a", "t", "c", "h", "F", "i", "l", "e", ".", "v", "4", "8">>,
       <<"!", " ", "E", "x", "p", "e", "r", "i", "m", "e", "n", "t", " ", " ", " ", ":", " ">> \o input.experiment,
       <<"!", " ", "E", "x", "p", "N", "o", " ", " ", " ", " ", " ", " ", " ", " ", ":", " ">> \o PyStrInt(Len(Treatments(input))),
       <<"!">>,
       <<"@", "F", "I", "L", "E", "X">> \o Spaces(88) \o <<"T", "R", "T", "N", "O", " ", " ", " ", " ", " ", "R", "P", " ", " ", " ", " ", " ", "S", "Q", " ", " ", " ", " ", " ", "O", "P", " ", " ", " ", " ", " ", "C", "O">> >>

\* f"{padded_path}{trt_num:>9}      1      0      0      0", lines 612-613
BatchLine(full_path, trt_num) ==
    PadRight(full_path, 90) \o PadLeft(PyStrInt(trt_num), 9)
        \o <<" ", " ", " ", " ", " ", " ", "1", " ", " ", " ", " ", " ", " ", "0", " ", " ", " ", " ", " ", " ", "0", " ", " ", " ", " ", " ", " ", "0">>

\* the treatments a caller names: " 12", "7" and "x"
TreatmentTokens == { <<" ", "1", "2">>, <<"7">>, <<"x">> }

\* the fields a caller may leave out or leave empty (the treatment a list or
\* one string), and the facts about the file system the call meets
BatchInputs ==
    [folders     : {<<>>} \cup Folders,
     executables : {<<>>, DSCSM048},
     experiment  : {<<>>, FILE1_MZX},
     treatment   : UNION {[1..n -> TreatmentTokens] : n \in 0..MaxTreatments},
     is_str      : {FALSE},
     folder_exists : BOOLEAN, exp_exists : BOOLEAN, writable : BOOLEAN]
    \cup
    [folders     : Folders,
     executables : {DSCSM048},
     experiment  : {FILE1_MZX},
     treatment   : {<<>>} \cup TreatmentTokens,
     is_str      : {TRUE},
     folder_exists : BOOLEAN, exp_exists : BOOLEAN, writable : BOOLEAN]

\* missing_fields, line 561: the required fields that are absent or empty
MissingFields(input) ==
    SelectSeq(<<"folders", "executables", "experiment", "treatment">>,
              LAMBDA f : input[f] = <<>>)

Call_create_batch_file ==
    /\ pc = "idle" /\ run.pc = "idle"
    /\ \E input \in BatchInputs : arg' = input
    /\ op' = "create_batch_file" /\ fn' = "create_batch_file" /\ pc' = "validate"
    /\ UNCHANGED <<log, lines, ret, x_files, result, cwd, batch, run, plot>>

\* lines 559-602: the input checks, each raising, then the header lines; the
\* function's handler logs and raises again
CreateValidate ==
    /\ fn = "create_batch_file" /\ pc = "validate"
    /\ IF MissingFields(arg) # <<>>
       THEN ret' = Raise("ValueError") /\ pc' = "done" /\ lines' = lines
       ELSE IF CropInfo(arg.folders) = 0
       THEN ret' = Raise("ValueError") /\ pc' = "done" /\ lines' = lines
       ELSE IF FolderPath(arg.folders) = <<>>
       THEN ret' = Raise("ValueError") /\ pc' = "done" /\ lines' = lines
       ELSE IF ~arg.folder_exists
       THEN ret' = Raise("FileNotFoundError") /\ pc' = "done" /\ lines' = lines
       ELSE /\ lines' = BatchHeader(arg, get_crop_details[CropInfo(arg.folders)],
                                    FolderPath(arg.folders))
            /\ pc' = "loop" /\ ret' = ret
    /\ UNCHANGED <<op, fn, arg, log, x_files, result, cwd, batch, run, plot>>

\* the number of treatments the loop has added a line for
TreatmentsDone == Len(lines) - 8

\* CreateTreatment writing the file at every turn of the loop
CreateTreatment_WriteEach ==
    /\ fn = "create_batch_file" /\ pc = "loop"
    /\ TreatmentsDone < Len(Treatments(arg))
    /\ LET treatment == Treatments(arg)[TreatmentsDone + 1]
           full_path == PathJoin(FolderPath(arg.folders), arg.experiment)
       IN  IF ~PyInt(treatment).ok
           THEN ret' = Raise("ValueError") /\ pc' = "done" /\ lines' = lines /\ batch' = batch
           ELSE IF ~arg.exp_exists
           THEN ret' = Raise("FileNotFoundError") /\ pc' = "done" /\ lines' = lines /\ batch' = batch
           ELSE /\ lines' = Append(lines, BatchLine(full_path, PyInt(treatment).val))
                /\ batch' = [exists |-> TRUE, lines |-> lines']
                /\ UNCHANGED <<pc, ret>>
    /\ UNCHANGED <<op, fn, arg, log, x_files, result, cwd, run, plot>>

\* one turn of `for treatment in treatments`, lines 605-617
CreateTreatment ==
    /\ fn = "create_batch_file" /\ pc = "loop"
    /\ TreatmentsDone < Len(Treatments(arg))
    /\ LET treatment == Treatments(arg)[TreatmentsDone + 1]
           full_path == PathJoin(FolderPath(arg.folders), arg.experiment)
       IN  IF ~PyInt(treatment).ok
           THEN ret' = Raise("ValueError") /\ pc' = "done" /\ lines' = lines
           ELSE IF ~arg.exp_exists
           THEN ret' = Raise("FileNotFoundError") /\ pc' = "done" /\ lines' = lines
           ELSE /\ lines' = Append(lines, BatchLine(full_path, PyInt(treatment).val))
                /\ UNCHANGED <<pc, ret>>
    /\ UNCHANGED <<op, fn, arg, log, x_files, result, cwd, batch, run, plot>>

\* lines 619-625: the file is written and its path returned; an open() that
\* is refused raises and leaves the file as it was
CreateWrite ==
    /\ fn = "create_batch_file" /\ pc = "loop"
    /\ TreatmentsDone = Len(Treatments(arg))
    /\ IF ~arg.writable
       THEN ret' = Raise("OSError") /\ batch' = batch
       ELSE /\ batch' = [exists |-> TRUE, lines |-> lines]
            /\ ret' = RetStr(PathJoin(FolderPath(arg.folders), BATCHFILE_V48))
    /\ pc' = "done"
    /\ UNCHANGED <<op, fn, arg, log, lines, x_files, result, cwd, run, plot>>

\* what run_treatment is given, and what the call meets: whether the working
\* directory and the executable exist, and the exit code of the process
RunInputs ==
    [folders     : Folders,
     executables : {DSCSM048},
     treatment   : { <<>>, << <<"1">> >> },
     dir_exists : BOOLEAN, exe_exists : BOOLEAN, code : {0, 1, 99}]

\* the application writes the batch file before it starts the run; a read may
\* be in progress on another thread
Call_run_treatment ==
    /\ run.pc = "idle" /\ op # "create_batch_file"
    /\ \E input \in RunInputs : run' = [RunIdle EXCEPT !.pc = "check", !.arg = input]
    /\ UNCHANGED <<op, fn, pc, arg, log, lines, ret, x_files, result, cwd, batch, plot>>

\* lines 634-656: no treatment, unknown crop or missing working directory
\* raise; otherwise the directory is saved and changed
RunChdir ==
    /\ run.pc = "check"
    /\ IF run.arg.treatment = <<>>
       THEN run' = [run EXCEPT !.pc = "done", !.out = "ValueError"] /\ cwd' = cwd
       ELSE IF CropInfo(run.arg.folders) = 0
       THEN run' = [run EXCEPT !.pc = "done", !.out = "ValueError"] /\ cwd' = cwd
       ELSE IF FolderPath(run.arg.folders) = <<>> \/ ~run.arg.dir_exists
       THEN run' = [run EXCEPT !.pc = "done", !.out = "FileNotFoundError"] /\ cwd' = cwd
       ELSE /\ run' = [run EXCEPT !.pc = "verify", !.original_dir = cwd]
            /\ cwd' = CROP_DIR
    /\ UNCHANGED <<op, fn, pc, arg, log, lines, ret, x_files, result, batch, plot>>

\* lines 660-665: the executable and BatchFile.v48 (looked up in the working
\* directory) must exist
RunVerify ==
    /\ run.pc = "verify"
    /\ IF ~run.arg.exe_exists \/ ~(cwd = CROP_DIR /\ batch.exists)
       THEN run' = [run EXCEPT !.pc = "finally", !.out = "FileNotFoundError"]
       ELSE run' = [run EXCEPT !.pc = "exec"]
    /\ UNCHANGED <<op, fn, pc, arg, log, lines, ret, x_files, result, cwd, batch, plot>>

\* RunOutcome raising for exit code 99 only
RunOutcome_Only99(returncode) ==
    IF returncode = 99 THEN "RuntimeError: DSSAT simulation failed"
    ELSE "stdout"

\* lines 678-689: the process's exit code decides between the two errors and
\* the returned output
RunOutcome(returncode) ==
    IF returncode = 99 THEN "RuntimeError: DSSAT simulation failed"
    ELSE IF returncode # 0 THEN "RuntimeError: DSSAT execution failed"
    ELSE "stdout"

\* lines 668-689: subprocess.run and the handling of its result
RunExec ==
    /\ run.pc = "exec"
    /\ run' = [run EXCEPT !.pc = "finally", !.ran = TRUE, !.code = run.arg.code,
                          !.out = RunOutcome(run.arg.code)]
    /\ UNCHANGED <<op, fn, pc, arg, log, lines, ret, x_files, result, cwd, batch, plot>>

\* RunFinally without the os.chdir back
RunFinally_NoRestore ==
    /\ run.pc = "finally"
    /\ cwd' = cwd
    /\ run' = [run EXCEPT !.pc = "done"]
    /\ UNCHANGED <<op, fn, pc, arg, log, lines, ret, x_files, result, batch, plot>>

\* finally: os.chdir(original_dir), lines 695-697
RunFinally ==
    /\ run.pc = "finally"
    /\ cwd' = run.original_dir
    /\ run' = [run EXCEPT !.pc = "done"]
    /\ UNCHANGED <<op, fn, pc, arg, log, lines, ret, x_files, result, batch, plot>>

\* the caller takes run_treatment's outcome
RunReturn ==
    /\ run.pc = "done"
    /\ run' = RunIdle
    /\ UNCHANGED <<op, fn, pc, arg, log, lines, ret, x_files, result, cwd, batch, plot>>

NextSide ==
    \/ Call_create_batch_file
    \/ CreateValidate
    \/ CreateTreatment
    \/ CreateWrite
    \/ Call_run_treatment
    \/ RunChdir
    \/ RunVerify
    \/ RunExec
    \/ RunFinally
    \/ RunReturn
    \/ Return

SpecSide == Init /\ [][NextSide]_vars

\* a text that writes an integer: digits, with blanks around and a sign allowed
ClaimIsInteger(text) ==
    \E a \in 1..Len(text), b \in 1..Len(text) :
        /\ a <= b
        /\ \A i \in 1..Len(text) : (i < a \/ i > b) => text[i] = " "
        /\ \A i \in a..b : text[i] \in Digits \/ (i = a /\ a < b /\ text[i] \in {"+", "-"})

\* the treatments a call asks for, one string counting as one
ClaimRequested(input) == IF input.is_str THEN <<input.treatment>> ELSE input.treatment

\* the inputs for which create_batch_file has to raise
ClaimCreateMustRaise(input) ==
    \/ \E f \in {"folders", "executables", "experiment", "treatment"} : Len(input[f]) = 0
    \/ \A i \in 1..Len(get_crop_details) :
          Upper(get_crop_details[i].name) # Upper(input.folders)
    \/ ~input.folder_exists
    \/ ~input.exp_exists
    \/ \E k \in 1..Len(ClaimRequested(input)) : ~ClaimIsInteger(ClaimRequested(input)[k])

RunErrors == {"ValueError", "FileNotFoundError",
              "RuntimeError: DSSAT simulation failed",
              "RuntimeError: DSSAT execution failed"}

\* C14: create_batch_file raises on an absent or empty field, an unknown crop,
\* a crop folder or experiment file that does not exist and a treatment that
\* is not an integer, and otherwise raises or returns the path; run_treatment
\* raises when no treatment is selected and when the process ends with a
\* nonzero exit code (the simulation-failed error for 99), and returns the
\* output only for exit code 0.
C14_FailuresRaise ==
    /\ (op = "create_batch_file" /\ pc = "done")
          => /\ ret.kind \in {"raise", "str"}
             /\ ClaimCreateMustRaise(arg) => ret.kind = "raise"
    /\ run.pc = "done"
          => /\ run.out \in RunErrors \cup {"stdout"}
             /\ run.arg.treatment = <<>> => run.out \in RunErrors
             /\ (run.ran /\ run.code # 0) => run.out \in RunErrors
             /\ (run.ran /\ run.code = 99)
                   => run.out = "RuntimeError: DSSAT simulation failed"
             /\ run.out = "stdout" => (run.ran /\ run.code = 0)

\* the process ran on a batch file an earlier call wrote and ended with 99
C14_Witness ==
    /\ run.pc = "done" /\ run.ran /\ run.code = 99
    /\ run.out = "RuntimeError: DSSAT simulation failed"
    /\ batch.exists /\ Len(batch.lines) = 10

-----------------------------------------------------------------------------
(* Reads on one thread while run_treatment runs on another.  os.chdir       *)
(* changes the working directory of the whole process, and a path that is   *)
(* not absolute is resolved against it at each os.path.exists and open.     *)

ConcReaders == {"read_file", "read_forage_file"}

\* what a directory holds under the name the read is given
Absent == [exists |-> FALSE, lines |-> <<>>]

ConcFiles == {Absent,
              [exists |-> TRUE, lines |-> <<L_hAB, L_r12>>],
              [exists |-> TRUE, lines |-> <<L_hAB, L_r12, L_r3>>]}

\* a relative path, and the file of that name in each directory
ConcArgs == [name : {PLANTGRO_OUT}, files : [{APP_DIR, CROP_DIR} -> ConcFiles]]

Call_read_relative ==
    /\ pc = "idle"
    /\ \E f \in ConcReaders : op' = f /\ fn' = f
    /\ \E a \in ConcArgs : arg' = a
    /\ pc' = "exists"
    /\ UNCHANGED <<log, lines, ret, x_files, result, cwd, batch, run, plot>>

\* if not os.path.exists(file_path): return None
RelCheckExists ==
    /\ op \in ConcReaders /\ pc = "exists"
    /\ IF ~arg.files[cwd].exists
       THEN ret' = RetNone /\ pc' = "done"
       ELSE ret' = ret /\ pc' = "open"
    /\ UNCHANGED <<op, fn, arg, log, lines, x_files, result, cwd, batch, run, plot>>

\* open(file_path, "r", encoding=encoding) and readlines; a missing file
\* raises FileNotFoundError, which the function's handler turns into None
RelOpen ==
    /\ op \in ConcReaders /\ pc = "open"
    /\ IF ~arg.files[cwd].exists
       THEN /\ ret' = Except(RetRaise, RetNone) /\ pc' = "done" /\ lines' = lines
       ELSE /\ lines' = arg.files[cwd].lines /\ pc' = "parse" /\ ret' = ret
    /\ UNCHANGED <<op, fn, arg, log, x_files, result, cwd, batch, run, plot>>

NextConc ==
    \/ Call_read_relative
    \/ RelCheckExists
    \/ RelOpen
    \/ Parse
    \/ NextSide

SpecConc == Init /\ [][NextConc]_vars

\* what the read returns when nothing else runs: the working directory is the
\* one the application started in
ClaimAlone(f, a) ==
    LET file == a.files[APP_DIR]
    IN  IF ~file.exists \/ file.lines = <<>> THEN RetNone
        ELSE IF f = "read_file" THEN Except(ReadFileParse(file.lines), RetNone)
        ELSE Except(ForageParse(file.lines), RetNone)

\* C15: a read that runs while other operations of the module run returns
\* what it returns when it runs alone on the same path and file contents.
C15_ReadsIndependent ==
    (pc = "done" /\ op \in ConcReaders) => ret = ClaimAlone(op, arg)

\* no token of a data line of the file begins with the header marker
ClaimPlainData(ls) ==
    \A i \in 1..Len(ls) :
        ClaimIsData(ls[i]) => \A k \in 1..Len(Split(ls[i])) : ~StartsWith(Split(ls[i])[k], AT)

\* C16: in read_file every header line starts a new block: the rows after the
\* k-th header are stored under the k-th header's names (here: the last data
\* line of a file with two headers, under the second header's names), and no
\* header line is stored as a data row; stated for the files with no
\* TREATMENT line.
C16_HeaderStartsBlock ==
    LET hp == ClaimHeaderPositions(lines)
        b2 == ClaimDataBetween(lines, hp[2], Len(lines) + 1)
    IN  (/\ pc = "done" /\ fn = "read_file" /\ ret.kind = "DataFrame"
         /\ NoTreatmentLine(lines) /\ ClaimPlainData(lines) /\ Len(hp) = 2)
        => /\ \A r \in 1..Len(ret.rows) : \A k \in 1..Len(ret.cols) :
                 ~StartsWith(ret.rows[r][k], AT)
           /\ b2 # <<>> =>
                 ClaimRowIs(ret, Len(ret.rows), lines, b2[Len(b2)],
                            ClaimHeaderNames(lines[hp[2]]))

\* the positions of the (at most five) lines immediately before position p
ClaimWindow(p) == {i \in 1..(p - 1) : i >= p - 5}

ClaimNamesTreatment(line) == Contains(Upper(line), TREATMENT)

\* the tokens of a line that are made only of digits
ClaimNumbers(line) == SelectSeq(Split(line), LAMBDA t : t # <<>> /\ \A k \in 1..Len(t) : t[k] \in Digits)

\* C17: in read_forage_file, for a file with one header line at position p and
\* data lines after it, when exactly one line names TREATMENT, it is among the
\* five lines before p and holds a number, every row has TRT equal to that
\* number, whatever p is; when no line before p among those five names
\* TREATMENT, TRT does not come from a TREATMENT line: it is TRNO, else TR,
\* else "1".
C17_TreatmentWindow ==
    LET hp == Indices(lines, ForageIsHeader)
        p  == hp[1] + 1
        tl == {i \in 1..Len(lines) : ClaimNamesTreatment(lines[i])}
    IN  (/\ pc = "done" /\ fn = "read_forage_file"
         /\ Len(hp) = 1 /\ \E i \in (p + 1)..Len(lines) : ForageKeeps(lines[i]))
        => /\ ret.kind = "DataFrame" /\ HasCol(ret, TRT)
           /\ (\E i \in ClaimWindow(p) : tl = {i} /\ ClaimNumbers(lines[i]) # <<>>)
                 => \A r \in 1..Len(ret.rows) :
                       Column(ret, TRT)[r] = ClaimNumbers(lines[CHOOSE i \in tl : TRUE])[1]
           /\ (tl \cap ClaimWindow(p) = {})
                 => \A r \in 1..Len(ret.rows) :
                       Column(ret, TRT)[r] =
                           IF HasCol(ret, TRNO) THEN Column(ret, TRNO)[r]
                           ELSE IF HasCol(ret, TR) THEN Column(ret, TR)[r]
                           ELSE ONE

\* C18: every row of the table read_forage_file returns has a TRT value
\* that is not missing, also when only some blocks of the file yield a
\* treatment number.
C18_TrtNeverMissing ==
    (pc = "done" /\ fn = "read_forage_file" /\ ret.kind = "DataFrame")
        => /\ HasCol(ret, TRT)
           /\ \A r \in 1..Len(ret.rows) : Column(ret, TRT)[r] # None

\* the lines after the first header that, trimmed, are neither empty nor a
\* comment
ClaimRowCandidates(ls) ==
    {i \in 1..Len(ls) :
        /\ \E j \in 1..(i - 1) : ClaimIsHeader(ls[j])
        /\ Strip(ls[i]) # <<>>
        /\ ~ClaimIsComment(ls[i])}

\* C19: in every reader a line that, trimmed, is empty or starts with '*'
\* gives no data row, also when blanks precede the '*': the table has no
\* more rows than the file has other lines after its first header.
C19_TrimmedCommentSkipped ==
    (pc = "done" /\ op \in RowReaders /\ ret.kind = "DataFrame")
        => Len(ret.rows) <= Cardinality(ClaimRowCandidates(lines))

-----------------------------------------------------------------------------
(* The DATE step of the three readers on tables of several rows: lines     *)
(* 207-214 and 400-407 (AddDate) and lines 532-540 of read_observed_data.   *)

DateSites == {"read_file", "read_forage_file", "read_observed_data"}

Y2023 == <<"2", "0", "2", "3">>

Y2024 == <<"2", "0", "2", "4">>

\* the tables the output readers have before the DATE step
OutDateTables ==
    UNION { [cols : {<<YEAR, DOY, TRT>>},
             rows : [1..r -> {<<y, d, t>> : y \in {Y2023, Y2024},
                                            d \in {<<"4", "5">>, <<"3", "6", "6">>, <<"4", "0", "0">>},
                                            t \in {ONE, None}}]]
            : r \in 0..MaxRows }

\* the tables read_observed_data has before its DATE step
ObsDateTables ==
    UNION { [cols : {<<TRT, DATE>>},
             rows : [1..r -> {<<t, d>> : t \in {ONE, None},
                                         d \in {Y2023 \o <<"0", "4", "5">>, <<"x">>, None}}]]
            : r \in 0..MaxRows }

Call_dates ==
    /\ pc = "idle"
    /\ \E f \in DateSites : 
          /\ fn' = f
          /\ \E t \in (IF f = "read_observed_data" THEN ObsDateTables ELSE OutDateTables) :
                arg' = t
    /\ op' = "dates" /\ pc' = "dates"
    /\ UNCHANGED <<log, lines, ret, x_files, result, cwd, batch, run, plot>>

\* the DATE step as the function fn has it
DatesStep ==
    /\ op = "dates" /\ pc = "dates"
    /\ ret' = RetDF(IF fn = "read_observed_data"
                    THEN ObservedAsStr(ObservedDate(arg), <<TRNO, TRT, TR, TN>>)
                    ELSE AddDate(arg))
    /\ pc' = "done"
    /\ UNCHANGED <<op, fn, arg, log, lines, x_files, result, cwd, batch, run, plot>>

NextKeep == Call_dates \/ DatesStep \/ Return

SpecKeep == Init /\ [][NextKeep]_vars

\* a YYYYDDD text that names a day of its year
ClaimParses(cell) ==
    /\ Len(cell) = 7 /\ \A k \in 1..7 : cell[k] \in Digits
    /\ ClaimValidDoy(StrToInt(SubSeq(cell, 1, 4)), StrToInt(SubSeq(cell, 5, 7)))

\* a text of the form YYYY-MM-DD
ClaimIsoText(cell) ==
    /\ Len(cell) = 10
    /\ \A k \in 1..10 : IF k \in {5, 8} THEN cell[k] = "-" ELSE cell[k] \in Digits

\* C20: in read_file and read_forage_file the DATE step keeps every row in its
\* place and every other column as it was, and a row whose YEAR and DOY name
\* no day has DATE missing; in read_observed_data the rows whose DATE does not
\* parse are removed, the others stay in order with DATE as YYYY-MM-DD text
\* and the treatment cells as text.
C20_DateAsymmetry ==
    (op = "dates" /\ pc = "done")
        => IF fn = "read_observed_data"
           THEN LET keep == SelectSeq([i \in 1..Len(arg.rows) |-> i],
                                LAMBDA i : ClaimParses(Column(arg, DATE)[i]))
                IN  /\ Len(ret.rows) = Len(keep)
                    /\ \A k \in 1..Len(keep) :
                          /\ ClaimIsoText(Column(ret, DATE)[k])
                          /\ Column(ret, TRT)[k] # None
                          /\ Column(arg, TRT)[keep[k]] # None
                                => Column(ret, TRT)[k] = Column(arg, TRT)[keep[k]]
           ELSE /\ Len(ret.rows) = Len(arg.rows)
                /\ \A r \in 1..Len(arg.rows) :
                      /\ \A k \in 1..Len(arg.cols) : ret.rows[r][k] = arg.rows[r][k]
                      /\ ~ClaimValidDoy(StrToInt(Column(arg, YEAR)[r]),
                                        StrToInt(Column(arg, DOY)[r]))
                            => Column(ret, DATE)[r] = NaT

\* C21: when run_treatment has ended, by returning the output or by raising
\* on any of its paths, the working directory is the one it was before the
\* call; no other operation changes it, so before every call it is the
\* directory the application started in.
C21_WorkingDirectoryRestored ==
    /\ run.pc \in {"idle", "check", "done"} => cwd = APP_DIR
    /\ run.pc = "done"
          => \/ run.original_dir = ""
             \/ run.original_dir = cwd

\* the call changed the directory, the process ended with exit code 1, and
\* the call has raised
C21_Witness ==
    /\ run.pc = "done" /\ run.original_dir = APP_DIR
    /\ run.ran /\ run.code = 1
    /\ run.out = "RuntimeError: DSSAT execution failed"
    /\ cwd = APP_DIR

\* the batch file a call with this input has to write: after the eight
\* header lines one line per requested treatment, in request order, with the
\* treatment's number in its TRTNO field, and ExpNo giving their count
ClaimBatchFile(file, input) ==
    LET req == ClaimRequested(input)
    IN  /\ Len(file) = 8 + Len(req)
        /\ Split(file[6]) = << <<"!">>, <<"E", "x", "p", "N", "o">>, <<":">>,
                               IntToStr(Len(req)) >>
        /\ \A k \in 1..Len(req) :
              Strip(SubSeq(file[8 + k], 91, 99)) = IntToStr(StrToInt(Strip(req[k])))

\* C22: create_batch_file writes BatchFile.v48 only after every input check
\* has passed: the file changes only in the step that ends a call with the
\* path returned, never in a call that raises on a missing field, an unknown
\* crop, a missing folder or experiment file or a treatment that is not an
\* integer; and a call that returns the path has written one treatment line
\* per requested treatment, in order, with ExpNo equal to their number.
C22_WriteAfterChecks ==
    [][/\ batch' # batch
            => /\ op = "create_batch_file" /\ pc # "done" /\ pc' = "done"
               /\ ret'.kind = "str" /\ ~ClaimCreateMustRaise(arg)
       /\ (op = "create_batch_file" /\ pc # "done" /\ pc' = "done" /\ ret'.kind = "str")
            => /\ batch'.exists
               /\ ClaimBatchFile(batch'.lines, arg)]_vars

\* a call raised at its second treatment, after the line of the first was
\* built, while the file of an earlier call with one treatment is in place
C22_Witness ==
    /\ op = "create_batch_file" /\ pc = "done" /\ ret.kind = "raise"
    /\ ~arg.is_str /\ Len(arg.treatment) = 2 /\ Len(lines) = 9
    /\ batch.exists /\ Len(batch.lines) = 9

\* a call with the treatment given as the one string " 12" has written the file
C22_WitnessString ==
    /\ op = "create_batch_file" /\ pc = "done" /\ ret.kind = "str"
    /\ arg.is_str /\ batch.lines = lines /\ Len(lines) = 9

-----------------------------------------------------------------------------
(* ForagePlotWidget.plot_data, lines 189-271: the placement of the grouped  *)
(* bars.  Positions are kept as integers: with n = len(treatments) *        *)
(* n_active_vars, one unit is 0.2 / n, so that 1.0 is 5 * n units.          *)

\* the distance between two x positions (x_idx counts in steps of 1.0)
XStep(n) == 5 * n

\* group_width = 0.8
GroupWidth(n) == 4 * n

\* bar_width = group_width / (len(treatments) * n_active_vars)
BarWidth(n) == GroupWidth(n) \div n

\* n_active_vars = len([v for v in y_vars if v != x_var])
n_active_vars(y_vars, x_var) == Len(SelectSeq(y_vars, LAMBDA v : v # x_var))

\* combined_idx = trt_idx * n_active_vars + active_var_idx
CombinedIdx(trt_idx, n_vars, active_var_idx) == trt_idx * n_vars + active_var_idx

\* bar_offset = (combined_idx - n / 2 + 0.5) * bar_width
BarOffset(combined_idx, n) == ((2 * combined_idx - n + 1) * BarWidth(n)) \div 2

\* bar_pos = x_idx + bar_offset
BarPos(x_idx, bar_offset, n) == x_idx * XStep(n) + bar_offset

\* the x variable, and the variables a user can tick
X_VAR == "DATE"

PlotVars == {X_VAR, "CWAD", "LAID"}

\* the number of treatments in the data, the ticked y variables (each once),
\* the x variable and the number of x values; every treatment has a row at
\* every x value
PlotInputs ==
    [treatments : 1..MaxTrt,
     y_vars     : {q \in UNION {[1..n -> PlotVars] : n \in 1..MaxVars} :
                      \A i, j \in 1..Len(q) : i # j => q[i] # q[j]},
     x_var      : {X_VAR},
     x_values   : 1..MaxX]

Call_plot_data ==
    /\ pc = "idle"
    /\ \E input \in PlotInputs : arg' = input
    /\ op' = "plot_data" /\ fn' = "plot_data" /\ pc' = "begin"
    /\ UNCHANGED <<log, lines, ret, x_files, result, cwd, batch, run, plot>>

\* lines 191-203: nothing to plot, or the counters are set
PlotBegin ==
    /\ fn = "plot_data" /\ pc = "begin"
    /\ IF n_active_vars(arg.y_vars, arg.x_var) = 0
       THEN ret' = RetNone /\ pc' = "done"
       ELSE ret' = ret /\ pc' = "vars"
    /\ plot' = NoPlot
    /\ UNCHANGED <<op, fn, arg, log, lines, x_files, result, cwd, batch, run>>

\* one turn of `for var in y_vars`, lines 214-271
PlotVar ==
    /\ fn = "plot_data" /\ pc = "vars"
    /\ plot.trt_idx < arg.treatments /\ plot.var_idx < Len(arg.y_vars)
    /\ LET var   == arg.y_vars[plot.var_idx + 1]
           n_var == n_active_vars(arg.y_vars, arg.x_var)
           n     == arg.treatments * n_var
           combined_idx == CombinedIdx(plot.trt_idx, n_var, plot.active_var_idx)
           bar_offset   == BarOffset(combined_idx, n)
       IN  IF var = arg.x_var
           THEN plot' = [plot EXCEPT !.var_idx = @ + 1]
           ELSE plot' = [plot EXCEPT
                    !.var_idx = @ + 1,
                    !.active_var_idx = @ + 1,
                    !.bars = @ \o [k \in 1..arg.x_values |->
                                [trt_idx |-> plot.trt_idx, var |-> var,
                                 combined_idx |-> combined_idx, x_idx |-> k - 1,
                                 bar_pos |-> BarPos(k - 1, bar_offset, n),
                                 width |-> BarWidth(n)]]]
    /\ UNCHANGED <<op, fn, pc, arg, log, lines, ret, x_files, result, cwd, batch, run>>

\* the next turn of `for trt_idx, trt in enumerate(treatments)`, line 205
PlotNextTreatment ==
    /\ fn = "plot_data" /\ pc = "vars"
    /\ plot.trt_idx < arg.treatments /\ plot.var_idx = Len(arg.y_vars)
    /\ plot' = [plot EXCEPT !.trt_idx = @ + 1, !.var_idx = 0]
    /\ UNCHANGED <<op, fn, pc, arg, log, lines, ret, x_files, result, cwd, batch, run>>

\* the loops are over
PlotEnd ==
    /\ fn = "plot_data" /\ pc = "vars"
    /\ plot.trt_idx = arg.treatments
    /\ ret' = RetNone /\ pc' = "done"
    /\ UNCHANGED <<op, fn, arg, log, lines, x_files, result, cwd, batch, run, plot>>

NextPlot ==
    \/ Call_plot_data
    \/ PlotBegin
    \/ PlotVar
    \/ PlotNextTreatment
    \/ PlotEnd
    \/ Return

SpecPlot == Init /\ [][NextPlot]_vars

\* C23: with T treatments and V plotted variables every (treatment,
\* variable) pair has its own slot index in 0..T*V-1, every bar drawn for x
\* position i lies within half the group width of i, and bars of
\* neighbouring x positions do not overlap.
C23_BarsInGroup ==
    (op = "plot_data" /\ pc = "done")
        => LET T == arg.treatments
               V == Cardinality({k \in 1..Len(arg.y_vars) : arg.y_vars[k] # arg.x_var})
               n == T * V
               bars == plot.bars
               left(b)  == 2 * b.bar_pos - b.width
               right(b) == 2 * b.bar_pos + b.width
           IN  \A i, j \in 1..Len(bars) :
                  /\ bars[i].combined_idx \in 0..(n - 1)
                  /\ (bars[i].trt_idx # bars[j].trt_idx \/ bars[i].var # bars[j].var)
                        => bars[i].combined_idx # bars[j].combined_idx
                  /\ 2 * bars[i].x_idx * XStep(n) - GroupWidth(n) <= left(bars[i])
                  /\ right(bars[i]) <= 2 * bars[i].x_idx * XStep(n) + GroupWidth(n)
                  /\ bars[j].x_idx = bars[i].x_idx + 1 => right(bars[i]) <= left(bars[j])

====
